---- MODULE Spec2Model ----
(***************************************************************************)
(* One TerminalPane (web_poc/textual_browser/terminal_widget.py) and the   *)
(* PTYProcess objects it creates (web_poc/textual_browser/pty_process.py). *)
(*                                                                         *)
(* The asyncio event loop runs one callback or one coroutine step at a     *)
(* time, so every action below is the code between two suspension points.  *)
(* The blocking work handed to asyncio.to_thread (_fork,                   *)
(* _terminate_blocking) runs on worker threads, in parallel with the loop; *)
(* its steps are actions of their own.  The kernel side (the child, its    *)
(* pty buffer) moves by itself.                                            *)
(***************************************************************************)
EXTENDS Integers, Sequences, FiniteSets, TLC

\* ---- bounds of the model
MaxProcs == 3    \* start() calls that reach the lock, hence PTYProcess objects
MaxTasks == 2    \* coroutines that call start() / stop() concurrently
MaxBuf == 1      \* chunks the pty holds unread for one child
MaxObjs == 2     \* PTYProcess objects followed one by one through their life (SpecProc, SpecPane)
MaxSeqObjs == 1  \* PTYProcess objects a pane makes one after the other (SpecSize, SpecLoop, SpecData)
MaxPending == 2  \* chunks the pty holds unread for one child where chunks are told apart (SpecData)
MaxChunks == 3   \* chunks one child writes where chunks are told apart (SpecData)
MaxCallObjs == 1 \* PTYProcess objects that get terminate(), wait(), resize() calls (SpecCalls)

Procs == 1..MaxProcs
Tasks == 1..MaxTasks

\* ---- values of the program
None == 0                 \* Python's None for _process, pid and fd
SIGTERM == 15             \* signal.SIGTERM
ExitCodes == {0, 1}       \* exit codes a child leaves with
NoStatus == [kind |-> "none", val |-> 0]
NoChunk == 0              \* the chunks of the child's output are numbered from 1 where
                          \* they are told apart, and are all NoChunk where they are not

VARIABLES
    _process,     \* TerminalPane._process: None or the active PTYProcess
    _screen,      \* identity of TerminalPane._screen: 0 is the one __init__ made,
                  \* p the one start() made for PTYProcess p
    screenSize,   \* <<columns, lines>> of TerminalPane._screen
    size,         \* the widget's size <<width, height>>
    locked,       \* _open_lock is held
    waiters,      \* coroutines queued on _open_lock, first in first out
    pc,           \* where each coroutine (and the worker thread it awaits) is
    tproc,        \* the coroutine's local `process`
    contended,    \* the holder of the lock had to wait for it behind another start()
    stopInStart,  \* a stop() was called while the current holder of the lock was in flight
    nprocs,       \* PTYProcess objects constructed so far
    proc,         \* the PTYProcess objects: pid, fd, rows, cols
    readers,      \* descriptors registered with loop.add_reader
    kern,         \* the kernel's side of each child: state, pending signal, status, pty buffer
    hist,         \* what has been observed of each PTYProcess
    fed,          \* the process whose chunk the current screen was fed last (None: not fed yet)
    chunk,        \* the chunk the current screen was fed last
    stream,       \* the text fed to the current screen's stream, where the bytes of the
                  \* chunks are told apart
    output,       \* the bytes of the chunks a child writes, by number (<<>>: not told apart)
    message,      \* the last TerminalExited posted: its sender's process and its returncode
    lateCall,     \* _on_data has been called on an object whose descriptor was closed
    wr,           \* the last PTYProcess.write call: the object, its situation, the outcome
    rz,           \* the last _resize / PTYProcess.resize call: its arguments and what it invoked
    called,       \* the handler of the pane that ran last on the loop ("none": read and cleared)
    keyEvent,     \* a key event: its key, aliases and character
    keyData,      \* what _translate_key returned for keyEvent
    mouseEvent,   \* the last mouse event: its kind, button, offset and modifiers
    mouseData,    \* the byte strings its handler passed to _process.write, in order
    buffer,       \* _screen.buffer where the cells are told apart: the cell at each
                  \* <<row, col>> that has one
    cursor,       \* _screen.cursor: x, y, hidden
    _display,     \* TerminalPane._display: the characters of the Text, each with its style
    environ,      \* os.environ of the program: the environment its children inherit
    default_env,  \* TerminalPane.default_env
    startEnv,     \* the `env` argument of the start() calls
    default_command, \* TerminalPane.default_command
    startArgv     \* the `argv` argument of the last start() call, where it is told

vars == <<_process, _screen, screenSize, size, locked, waiters, pc, tproc, contended,
          stopInStart, nprocs, proc, readers, kern, hist, fed, chunk, stream, output, message,
          lateCall, wr, rz, called, keyEvent, keyData, mouseEvent, mouseData,
          buffer, cursor, _display, environ, default_env, startEnv,
          default_command, startArgv>>

paneVars == <<_process, _screen, screenSize, size>>
lockVars == <<locked, waiters, contended, stopInStart>>
taskVars == <<pc, tproc>>
objVars == <<nprocs, proc, readers>>
obsVars == <<hist, fed, chunk, stream, output, message, lateCall, wr>>
renderVars == <<buffer, cursor, _display>>
envVars == <<environ, default_env, startEnv>>
argVars == <<default_command, startArgv>>
eventVars == <<keyEvent, keyData, mouseEvent, mouseData, envVars, argVars>>
inputVars == <<eventVars, renderVars>>
callVars == <<rz, called, inputVars>>

Max(a, b) == IF a >= b THEN a ELSE b

\* terminal_widget.py:415-418
_current_dimensions == <<Max(10, size[1]), Max(5, size[2])>>

\* a dict of environment variables is the function from its keys to their
\* values; NoVars is the empty dict
NoVars == [k \in {} |-> ""]

\* the `env` argument when it is None
NoEnv == [isNone |-> TRUE, items |-> NoVars]

NewProc == [pid |-> None, fd |-> None, rows |-> 0, cols |-> 0, env |-> NoVars]
NewKern == [child |-> "none", sigterm |-> FALSE, status |-> NoStatus,
            buf |-> <<>>, execFailed |-> FALSE, ws |-> <<0, 0>>, nonblock |-> FALSE,
            environ |-> NoVars, hup |-> FALSE]
NewHist == [pred |-> None, exitCount |-> 0, closeCount |-> 0]

NoWrite == [process |-> None, active |-> FALSE, osOk |-> FALSE, outcome |-> "none",
            delivered |-> FALSE, unchanged |-> TRUE]

\* what a _resize or PTYProcess.resize call did: its arguments, and whether it
\* invoked the screen's resize, _update_display, PTYProcess.resize, the ioctl;
\* prev: <<cols, rows, screen>> of the _resize call before it
NoResize == [op |-> "none", process |-> None, rows |-> 0, cols |-> 0,
             screen |-> FALSE, display |-> FALSE, pty |-> FALSE, ioctl |-> FALSE,
             prev |-> <<0, 0, 0>>]

\* byte strings are sequences of byte values; Python's None where bytes are expected
NoBytes == <<-1>>
Untranslated == <<-2>>
NoKey == [key |-> <<>>, aliases |-> <<>>, character |-> <<>>]

\* event.button is an int, a str or None
IntButton(n) == [index |-> n, name |-> ""]
StrButton(s) == [index |-> -1, name |-> s]
NoButton == [index |-> -1, name |-> "None"]
NoMouse == [kind |-> "none", button |-> NoButton, x |-> 0, y |-> 0,
            shift |-> FALSE, meta |-> FALSE, ctrl |-> FALSE]

InitPane ==
    /\ _process = None
    /\ _screen = 0
    /\ screenSize = <<80, 24>>
    /\ size = <<0, 0>>
    /\ locked = FALSE
    /\ waiters = <<>>
    /\ pc = [t \in Tasks |-> "idle"]
    /\ tproc = [t \in Tasks |-> None]
    /\ contended = FALSE
    /\ stopInStart = FALSE
    /\ nprocs = 0
    /\ proc = [p \in Procs |-> NewProc]
    /\ readers = {}
    /\ kern = [p \in Procs |-> NewKern]
    /\ hist = [p \in Procs |-> NewHist]
    /\ fed = None
    /\ chunk = NoChunk
    /\ stream = <<>>
    /\ buffer = <<>>
    /\ cursor = [x |-> 0, y |-> 0, hidden |-> FALSE]
    /\ _display = <<>>
    /\ message = [process |-> None, returncode |-> <<>>]
    /\ lateCall = FALSE
    /\ wr = NoWrite
    /\ rz = NoResize
    /\ called = "none"

\* a command: None, or the list of its words
NoCommand == [isNone |-> TRUE, items |-> <<>>]
Command(words) == [isNone |-> FALSE, items |-> words]

\* a program without environment variables, a pane made without default_env
\* and default_command, start() called without env
NoEnvironment ==
    /\ environ = NoVars
    /\ default_env = NoVars
    /\ startEnv = NoEnv
    /\ default_command = NoCommand
    /\ startArgv = NoCommand

\* terminal_widget.py:83
command(argv, default) == IF ~argv.isNone THEN argv ELSE default

\* start() with `if command is None` in place of `if not command`
no_command_is_none(argv, default) == command(argv, default).isNone

\* terminal_widget.py:84: `not command`
no_command(argv, default) ==
    command(argv, default).isNone \/ command(argv, default).items = <<>>

\* dict.update(other): the dict it leaves
update(d, other) ==
    [k \in DOMAIN d \cup DOMAIN other |-> IF k \in DOMAIN other THEN other[k] ELSE d[k]]

\* terminal_widget.py:86-88
command_env ==
    IF ~startEnv.isNone /\ DOMAIN startEnv.items # {}
    THEN update(default_env, startEnv.items)
    ELSE default_env

Init ==
    /\ InitPane
    /\ NoEnvironment
    /\ output = <<>>
    /\ mouseEvent = NoMouse
    /\ mouseData = <<>>
    /\ keyEvent = NoKey
    /\ keyData = Untranslated

\* ------------------------------------------------------------------------
\* TerminalPane.start / stop

\* start(), lines 92-97: the fresh screen and display, the new PTYProcess and spawn() up to
\* its `await asyncio.to_thread(self._fork)`.  `old` is the process this start
\* stopped (None when the pane was idle).
start_spawn(t, old) ==
    LET p == nprocs + 1
        dims == _current_dimensions
    IN /\ nprocs' = p
       /\ _screen' = p
       /\ screenSize' = dims
       /\ fed' = None
       /\ chunk' = NoChunk
       /\ stream' = <<>>
       /\ buffer' = <<>>
       /\ cursor' = [x |-> 0, y |-> 0, hidden |-> FALSE]
       /\ _display' = <<>>
       /\ UNCHANGED output
       /\ proc' = [proc EXCEPT ![p] = [pid |-> None, fd |-> None,
                                       rows |-> dims[2], cols |-> dims[1],
                                       env |-> command_env]]
       /\ hist' = [hist EXCEPT ![p].pred = old]
       /\ tproc' = [tproc EXCEPT ![t] = p]
       /\ pc' = [pc EXCEPT ![t] = "start_fork"]

\* start(), lines 90-91, once the lock is held: `await self.stop()`, and when
\* stop() returns at once, on to the spawn without a suspension.
start_locked(t) ==
    IF _process = None
    THEN /\ start_spawn(t, None)
         /\ UNCHANGED _process
    ELSE /\ tproc' = [tproc EXCEPT ![t] = _process]
         /\ _process' = None
         /\ pc' = [pc EXCEPT ![t] = "start_kill"]
         /\ UNCHANGED <<_screen, screenSize, fed, chunk, stream, output, nprocs, proc, hist,
                        renderVars>>

\* asyncio.Lock.acquire returns at once only when the lock is free and nobody waits
LockFree == ~locked /\ waiters = <<>>

\* start() calls that hold or await the lock and have not constructed their process
PreSpawn == {t \in Tasks : pc[t] \in {"start_lock", "start_kill", "start_wait", "start_reaped"}}

\* TerminalPane.start(argv, env) up to its first suspension; without a command
\* it raises ValueError before the lock and changes nothing
start_steps(t, hasCommand) ==
    /\ pc[t] = "idle"
    /\ nprocs + Cardinality(PreSpawn) < MaxProcs
    /\ IF ~hasCommand
       THEN UNCHANGED <<_process, _screen, screenSize, fed, chunk, stream, output, locked, waiters, contended, pc, tproc,
                        nprocs, proc, hist, renderVars>>
       ELSE IF LockFree
       THEN /\ locked' = TRUE
            /\ contended' = FALSE
            /\ start_locked(t)
            /\ UNCHANGED waiters
       ELSE /\ waiters' = Append(waiters, t)
            /\ pc' = [pc EXCEPT ![t] = "start_lock"]
            /\ UNCHANGED <<_process, _screen, screenSize, fed, chunk, stream, output, locked, contended, tproc, nprocs, proc, hist,
                           renderVars>>
    /\ UNCHANGED <<size, stopInStart, readers, kern, message, lateCall, wr>>

\* a start() call whose arguments are not told apart
start(t, hasCommand) ==
    /\ start_steps(t, hasCommand)
    /\ UNCHANGED <<rz, called, eventVars>>

\* TerminalPane.start(argv) up to its first suspension
start_call(t, argv) ==
    /\ start_steps(t, ~no_command(argv, default_command))
    /\ called' = "start"
    /\ startArgv' = argv
    /\ UNCHANGED <<rz, keyEvent, keyData, mouseEvent, mouseData, envVars, default_command>>

\* the first waiter wakes up holding the lock and runs on into start()'s body
start_acquired(t) ==
    /\ pc[t] = "start_lock"
    /\ ~locked
    /\ waiters # <<>>
    /\ Head(waiters) = t
    /\ locked' = TRUE
    /\ contended' = TRUE
    /\ waiters' = Tail(waiters)
    /\ start_locked(t)
    /\ UNCHANGED <<size, stopInStart, readers, kern, message, lateCall, wr, rz, called, eventVars>>

\* stop() without the test of lines 103-104: None.terminate() raises AttributeError
stop_without_idle_test(t) ==
    /\ pc[t] = "idle"
    /\ stopInStart' = (stopInStart \/ locked)
    /\ tproc' = [tproc EXCEPT ![t] = _process]
    /\ _process' = None
    /\ pc' = [pc EXCEPT ![t] = IF _process = None THEN "stop_raised" ELSE "stop_kill"]
    /\ UNCHANGED <<_screen, screenSize, size, locked, waiters, contended, objVars, kern, obsVars,
                   rz, inputVars>>

\* TerminalPane.stop() called on its own (on_unmount, the hosting layer)
stop(t) ==
    /\ pc[t] = "idle"
    /\ stopInStart' = (stopInStart \/ locked)
    /\ IF _process = None
       THEN UNCHANGED <<_process, pc, tproc>>
       ELSE /\ tproc' = [tproc EXCEPT ![t] = _process]
            /\ _process' = None
            /\ pc' = [pc EXCEPT ![t] = "stop_kill"]
    /\ UNCHANGED <<_screen, screenSize, size, locked, waiters, contended, objVars, kern, obsVars,
                   rz, inputVars>>

\* ------------------------------------------------------------------------
\* PTYProcess.terminate: _terminate_blocking on a worker thread

\* _terminate_blocking, lines 149-154: the pid check and os.kill(pid, SIGTERM).
\* A signal to a child that has exited is lost (ProcessLookupError is swallowed).
_terminate_blocking_kill(t) ==
    /\ pc[t] \in {"start_kill", "stop_kill"}
    /\ LET p == tproc[t]
           pid == proc[p].pid
           next == IF pid = None THEN "reaped" ELSE "wait"
       IN /\ kern' = IF pid # None /\ kern[pid].child = "running"
                     THEN [kern EXCEPT ![pid].sigterm = TRUE]
                     ELSE kern
          /\ pc' = [pc EXCEPT ![t] = IF pc[t] = "start_kill"
                                     THEN "start_" \o next ELSE "stop_" \o next]
    /\ UNCHANGED <<paneVars, lockVars, tproc, objVars, obsVars, callVars>>

\* _terminate_blocking, lines 155-159: os.waitpid(pid, 0) blocks while the child
\* runs; it reaps a zombie and discards its status, or finds the child already
\* reaped (ChildProcessError is swallowed); then self.pid = None.
_terminate_blocking_wait(t) ==
    /\ pc[t] \in {"start_wait", "stop_wait"}
    /\ LET p == tproc[t]
           pid == proc[p].pid
       IN /\ kern[pid].child \in {"zombie", "reaped"}
          /\ kern' = [kern EXCEPT ![pid].child = "reaped"]
          /\ proc' = [proc EXCEPT ![p].pid = None]
    /\ pc' = [pc EXCEPT ![t] = IF pc[t] = "start_wait" THEN "start_reaped" ELSE "stop_reaped"]
    /\ UNCHANGED <<paneVars, lockVars, tproc, nprocs, readers, obsVars, callVars>>

\* the loop resumes the coroutine that awaited terminate(): stop() returns; inside
\* start() the body goes on to the spawn
terminate_done(t) ==
    /\ pc[t] \in {"start_reaped", "stop_reaped"}
    /\ IF pc[t] = "stop_reaped"
       THEN /\ pc' = [pc EXCEPT ![t] = "idle"]
            /\ tproc' = [tproc EXCEPT ![t] = None]
            /\ UNCHANGED <<_screen, screenSize, fed, chunk, stream, output, nprocs, proc, hist,
                           renderVars>>
       ELSE start_spawn(t, tproc[t])
    /\ UNCHANGED <<_process, size, lockVars, readers, kern, message, lateCall, wr, rz, called,
                   eventVars>>

\* ------------------------------------------------------------------------
\* PTYProcess.spawn

\* dict.setdefault(key, default): the dict it leaves
setdefault(d, key, default) ==
    IF key \in DOMAIN d THEN d ELSE update(d, [k \in {key} |-> default])

\* _fork with TERM and COLORTERM assigned instead of defaulted
child_environ_assigned(inherited, env) ==
    update(update(update(inherited, [k \in {"TERM"} |-> "xterm-256color"]),
                  [k \in {"COLORTERM"} |-> "truecolor"]), env)

\* _fork, lines 98-100, in the child: os.environ (a copy of the program's) as
\* os.execvp hands it to the command
child_environ(inherited, env) ==
    update(setdefault(setdefault(inherited, "TERM", "xterm-256color"),
                      "COLORTERM", "truecolor"), env)

\* _fork on a worker thread: pty.fork() fails with OSError, or makes the child,
\* whose os.execvp either replaces it by the command or raises inside the child
\* (the parent is not told: it has its pid and fd all the same).
_fork(t, forkOk, execOk) ==
    /\ pc[t] = "start_fork"
    /\ LET p == tproc[t]
       IN IF forkOk
          THEN /\ kern' = [kern EXCEPT ![p].child = "running", ![p].execFailed = ~execOk,
                                       ![p].environ = child_environ(environ, proc[p].env)]
               /\ pc' = [pc EXCEPT ![t] = "start_forked"]
          ELSE /\ pc' = [pc EXCEPT ![t] = "start_forkerr"]
               /\ UNCHANGED kern
    /\ UNCHANGED <<paneVars, lockVars, tproc, objVars, obsVars, callVars>>

\* _set_winsize(fd, rows, cols), lines 18-28: whether it gets to the TIOCSWINSZ
\* ioctl, and the kernel's side after the call
_set_winsize_ioctl(fd, rows, cols) == fd # None /\ rows > 0 /\ cols > 0

_set_winsize(k, fd, rows, cols) ==
    IF _set_winsize_ioctl(fd, rows, cols)
    THEN [k EXCEPT ![fd].ws = <<rows, cols>>]
    ELSE k

\* spawn() without the os.set_blocking(fd, False) of line 65
set_blocking_skipped(k, fd) == k

\* spawn(), line 65: os.set_blocking(fd, False), before add_reader of line 67
set_blocking(k, fd) == [k EXCEPT ![fd].nonblock = TRUE]

\* spawn() raises (and start() with it) exactly when the thread's pty.fork did
spawn_raises(t) == pc[t] = "start_forkerr"

\* start() with `self._process = process` before `await process.spawn(...)`
\* instead of after it
spawn_done_published_first(t) ==
    /\ pc[t] \in {"start_forked", "start_forkerr"}
    /\ LET p == tproc[t]
       IN IF spawn_raises(t)
          THEN /\ _process' = p
               /\ UNCHANGED <<proc, kern, readers>>
          ELSE /\ proc' = [proc EXCEPT ![p].pid = p, ![p].fd = p]
               /\ kern' = set_blocking(_set_winsize(kern, p, proc[p].rows, proc[p].cols), p)
               /\ readers' = readers \cup {p}
               /\ _process' = p
    /\ locked' = FALSE
    /\ contended' = FALSE
    /\ stopInStart' = FALSE
    /\ pc' = [pc EXCEPT ![t] = "idle"]
    /\ tproc' = [tproc EXCEPT ![t] = None]
    /\ UNCHANGED <<_screen, screenSize, size, waiters, nprocs, obsVars, callVars>>

\* the loop resumes spawn() after the thread: lines 62-67 of pty_process.py, then
\* start() lines 98-99 and the release of the lock; or the OSError of pty.fork
\* leaves spawn() and start(), and `async with` releases the lock.
spawn_done(t) ==
    /\ pc[t] \in {"start_forked", "start_forkerr"}
    /\ LET p == tproc[t]
       IN IF spawn_raises(t)
          THEN UNCHANGED <<proc, kern, readers, _process>>
          ELSE /\ proc' = [proc EXCEPT ![p].pid = p, ![p].fd = p]
               /\ kern' = set_blocking(_set_winsize(kern, p, proc[p].rows, proc[p].cols), p)
               /\ readers' = readers \cup {p}
               /\ _process' = p
    /\ locked' = FALSE
    /\ contended' = FALSE
    /\ stopInStart' = FALSE
    /\ pc' = [pc EXCEPT ![t] = "idle"]
    /\ tproc' = [tproc EXCEPT ![t] = None]
    /\ UNCHANGED <<_screen, screenSize, size, waiters, nprocs, obsVars, callVars>>

\* ------------------------------------------------------------------------
\* the child and its pty, as the kernel runs them

\* the command writes chunk c of its output to its terminal; the pty holds the
\* chunks in the order written until they are read
child_write(p, c) ==
    /\ kern[p].child = "running"
    /\ ~kern[p].execFailed
    /\ ~kern[p].hup
    /\ kern' = [kern EXCEPT ![p].buf = Append(@, c)]
    /\ UNCHANGED <<paneVars, lockVars, taskVars, objVars, obsVars, callVars>>

\* the last descriptor of the slave side is closed while the child is not yet
\* waited for: the command closes its terminal and runs on, or the exiting
\* child has closed its files and is not a zombie yet
child_close(p) ==
    /\ kern[p].child = "running"
    /\ ~kern[p].execFailed
    /\ ~kern[p].hup
    /\ kern' = [kern EXCEPT ![p].hup = TRUE]
    /\ UNCHANGED <<paneVars, lockVars, taskVars, objVars, obsVars, callVars>>

\* the command exits with a code (by itself, or from its SIGTERM handler)
child_exit(p, code) ==
    /\ kern[p].child = "running"
    /\ ~kern[p].execFailed
    /\ kern' = [kern EXCEPT ![p].child = "zombie", ![p].sigterm = FALSE,
                            ![p].status = [kind |-> "exited", val |-> code]]
    /\ UNCHANGED <<paneVars, lockVars, taskVars, objVars, obsVars, callVars>>

\* the pending SIGTERM kills the child
child_killed(p) ==
    /\ kern[p].child = "running"
    /\ kern[p].sigterm
    /\ kern' = [kern EXCEPT ![p].child = "zombie", ![p].sigterm = FALSE,
                            ![p].status = [kind |-> "signaled", val |-> SIGTERM]]
    /\ UNCHANGED <<paneVars, lockVars, taskVars, objVars, obsVars, callVars>>

\* ------------------------------------------------------------------------
\* PTYProcess._on_data and the callbacks it makes

\* _on_data without the `self.fd is None` test of line 105
_on_data_returns_without_fd_test(p) == p > nprocs

\* _on_data, lines 105-106: the early return (the callbacks are set from the
\* first line of spawn() on, that is for every constructed object)
_on_data_returns(p) == proc[p].fd = None \/ p > nprocs

\* os.read on the master side: a chunk while the buffer holds one; once the
\* child is gone and the buffer is drained a zero-length read or EIO, which
\* lines 109-110 turn into b"" alike
ReadGivesData(p) == proc[p].fd # None /\ kern[proc[p].fd].buf # <<>>

\* os.read returning the chunk written last instead of the oldest one
os_read_newest(p) == kern[proc[p].fd].buf[Len(kern[proc[p].fd].buf)]

\* line 108: the data os.read returns, the oldest chunk the pty holds
os_read(p) == Head(kern[proc[p].fd].buf)

SlaveClosed(p) == kern[p].hup \/ kern[p].child \in {"zombie", "reaped"}

\* os.WIFEXITED / os.WEXITSTATUS / os.WIFSIGNALED / os.WTERMSIG, lines 129-133
ExitClassification(status) ==
    IF status.kind = "exited" THEN <<status.val>>
    ELSE IF status.kind = "signaled" THEN <<-status.val>>
    ELSE <<>>

\* _poll_exit_status, what it returns: None without a pid, None when
\* waitpid(WNOHANG) finds the child running or already reaped, else the
\* classification of the status it reaped
_poll_exit_status(p) ==
    LET pid == proc[p].pid
    IN IF pid = None THEN <<>>
       ELSE IF kern[pid].child = "zombie" THEN ExitClassification(kern[pid].status)
       ELSE <<>>

\* _poll_exit_status, what its waitpid does to the child.  (kern[p].status keeps
\* how the child died until its exit notification is out, also across a reap.)
PollReap(p) ==
    LET pid == proc[p].pid
    IN IF pid # None /\ kern[pid].child = "zombie"
       THEN [kern EXCEPT ![pid].child = "reaped"]
       ELSE kern

\* _handle_exit, line 314: the pane's process reference after an exit callback of p
_handle_exit_process(p) == None

Inc(n) == IF n < 2 THEN n + 1 ELSE n

\* ------------------------------------------------------------------------
\* TerminalPane._handle_output: bytes.decode
\*
\* A text is the sequence of its code points.

UnicodeDecodeError == <<-3>>

IsContinuation(c) == c \in 128..191

\* the first character of a byte string as the UTF-8 codec reads it: the bytes
\* it takes and the code point, or -1 with the bytes of the error range
\* (invalid start byte, invalid continuation byte, unexpected end of data)
utf8_first(bs) ==
    LET b == bs[1]
        n == Len(bs)
        ok(k, cp) == [n |-> k, cp |-> cp]
        err(k) == [n |-> k, cp |-> -1]
    IN IF b < 128 THEN ok(1, b)
       ELSE IF b \in 194..223 THEN
            IF n < 2 \/ ~IsContinuation(bs[2]) THEN err(1)
            ELSE ok(2, (b - 192) * 64 + (bs[2] - 128))
       ELSE IF b \in 224..239 THEN
            IF n < 2 THEN err(1)
            ELSE IF ~IsContinuation(bs[2]) \/ (b = 224 /\ bs[2] < 160) \/ (b = 237 /\ bs[2] > 159)
            THEN err(1)
            ELSE IF n < 3 \/ ~IsContinuation(bs[3]) THEN err(2)
            ELSE ok(3, (b - 224) * 4096 + (bs[2] - 128) * 64 + (bs[3] - 128))
       ELSE IF b \in 240..244 THEN
            IF n < 2 THEN err(1)
            ELSE IF ~IsContinuation(bs[2]) \/ (b = 240 /\ bs[2] < 144) \/ (b = 244 /\ bs[2] > 143)
            THEN err(1)
            ELSE IF n < 3 \/ ~IsContinuation(bs[3]) THEN err(2)
            ELSE IF n < 4 \/ ~IsContinuation(bs[4]) THEN err(3)
            ELSE ok(4, (b - 240) * 262144 + (bs[2] - 128) * 4096 + (bs[3] - 128) * 64
                          + (bs[4] - 128))
       ELSE err(1)

\* bytes.decode("utf-8", errors=errors): the text, or UnicodeDecodeError raised.
\* "ignore" drops the bytes of an error, "replace" puts U+FFFD for them,
\* "strict" raises
RECURSIVE decode_utf8(_, _)
decode_utf8(bs, errors) ==
    IF bs = <<>> THEN <<>>
    ELSE LET first == utf8_first(bs)
             rest == decode_utf8(SubSeq(bs, first.n + 1, Len(bs)), errors)
         IN IF first.cp < 0 /\ errors = "strict" THEN UnicodeDecodeError
            ELSE IF rest = UnicodeDecodeError THEN UnicodeDecodeError
            ELSE IF first.cp >= 0 THEN <<first.cp>> \o rest
            ELSE IF errors = "replace" THEN <<65533>> \o rest
            ELSE rest

\* bytes.decode("latin-1"): one character per byte, with the byte's value
decode_latin1(bs) == [i \in 1..Len(bs) |-> bs[i]]

\* _handle_output with the decoding of line 307 left at errors="strict" and no
\* except clause
_handle_output_strict(data) == decode_utf8(data, "strict")

\* _handle_output(data), lines 306-310: the text given to self._stream.feed
_handle_output(data) ==
    LET text == decode_utf8(data, "ignore")
    IN IF text = UnicodeDecodeError THEN decode_latin1(data) ELSE text

\* the bytes of chunk c
Data(c) == output[c]

\* PTYProcess._on_data, with _handle_output and _handle_exit as its callbacks
_on_data(p) ==
    IF _on_data_returns(p)
    THEN UNCHANGED <<_process, proc, readers, kern, hist, fed, chunk, stream, output, message>>
    ELSE IF ReadGivesData(p)
    THEN \* _read_callback(data): _handle_output feeds the pane's current screen
         /\ kern' = [kern EXCEPT ![proc[p].fd].buf = Tail(@)]
         /\ fed' = p
         /\ chunk' = os_read(p)
         /\ stream' = IF os_read(p) \in DOMAIN output
                       THEN stream \o _handle_output(Data(os_read(p)))
                       ELSE stream
         /\ UNCHANGED <<_process, proc, readers, hist, message, output>>
    ELSE \* _cleanup_reader, _poll_exit_status, _exit_callback: _handle_exit
         /\ readers' = readers \ {proc[p].fd}
         /\ proc' = [proc EXCEPT ![p].fd = None]
         /\ kern' = [PollReap(p) EXCEPT ![p].status = NoStatus,
                                         ![proc[p].fd].ws = <<0, 0>>,
                                         ![proc[p].fd].nonblock = FALSE]
         /\ hist' = [hist EXCEPT
                       ![p].closeCount = IF proc[p].fd # None THEN Inc(@) ELSE @,
                       ![p].exitCount = Inc(@)]
         /\ _process' = _handle_exit_process(p)
         /\ message' = [process |-> p, returncode |-> _poll_exit_status(p)]
         /\ UNCHANGED <<fed, chunk, stream, output>>

\* the worker thread of a coroutine is inside os.waitpid(pid, 0)
InWaitpid == {"start_wait", "stop_wait", "term_waiting", "wait_waiting"}

\* terminate() and wait() calling os.waitpid on the loop itself
LoopBlocked_by_waitpid == \E t \in Tasks : pc[t] \in InWaitpid

\* the loop is inside a blocking system call: never, as terminate() and wait()
\* hand their os.waitpid to a worker thread (asyncio.to_thread, lines 71 and 93)
LoopBlocked == FALSE

\* the loop finds a registered descriptor readable and calls its _on_data
pty_readable(p) ==
    /\ ~LoopBlocked
    /\ p \in readers
    /\ kern[p].buf # <<>> \/ SlaveClosed(p)
    /\ _on_data(p)
    /\ UNCHANGED <<_screen, screenSize, size, lockVars, taskVars, nprocs, lateCall, wr, callVars>>

\* one more readiness event for an object whose descriptor was closed already
late_readiness(p) ==
    /\ p <= nprocs
    /\ p \notin readers
    /\ hist[p].closeCount > 0
    /\ _on_data(p)
    /\ lateCall' = TRUE
    /\ UNCHANGED <<_screen, screenSize, size, lockVars, taskVars, nprocs, wr, callVars>>

\* ------------------------------------------------------------------------
\* PTYProcess.write

\* write(data) without the try/except of lines 77-80
write_call_uncaught(p, hasData, osOk) ==
    IF ~hasData \/ proc[p].fd = None
    THEN [outcome |-> "returned", obj |-> proc[p]]
    ELSE IF osOk
    THEN [outcome |-> "written", obj |-> proc[p]]
    ELSE [outcome |-> "raised", obj |-> proc[p]]

\* write(data), lines 75-80: what the call does and the object it leaves.
\* "returned": the early return; "written": os.write took the bytes;
\* "swallowed": os.write raised OSError, which is caught; "raised": an exception
\* leaves write().
write_call(p, hasData, osOk) ==
    IF ~hasData \/ proc[p].fd = None
    THEN [outcome |-> "returned", obj |-> proc[p]]
    ELSE IF osOk
    THEN [outcome |-> "written", obj |-> proc[p]]
    ELSE [outcome |-> "swallowed", obj |-> proc[p]]

\* the child is there to read what is written to the pty
ProcessActive(p) == proc[p].fd # None /\ kern[p].child = "running"

\* what a write(data) call on p leaves: the object, and the record of the call
write_effect(p, hasData, osOk) ==
    LET w == write_call(p, hasData, osOk)
    IN /\ proc' = [proc EXCEPT ![p] = w.obj]
       /\ wr' = [process |-> p,
                 active |-> ProcessActive(p),
                 osOk |-> osOk,
                 outcome |-> w.outcome,
                 delivered |-> (w.outcome = "written" /\ kern[p].child = "running"),
                 unchanged |-> (w.obj = proc[p])]

\* a write(data) on any constructed PTYProcess, in whatever state it is; the
\* kernel takes the bytes (osOk) or fails the write (EIO, EAGAIN)
write(p, hasData, osOk) ==
    /\ p <= nprocs
    /\ write_effect(p, hasData, osOk)
    /\ UNCHANGED <<paneVars, lockVars, taskVars, nprocs, readers, kern, hist, fed, chunk, stream, output,
                   message, lateCall, callVars>>

\* ------------------------------------------------------------------------
\* TerminalPane._translate_key, _ctrl_sequence, on_key
\*
\* A key name is the sequence of its parts between "+" signs: "shift+tab" is
\* <<"shift", "tab">>.  An event's character is <<>> for None, else <<c>>.

\* the letters, in the order of their code points: "A" is 65, "a" is 97
ascii_uppercase == <<"A", "B", "C", "D", "E", "F", "G", "H", "I", "J", "K", "L", "M",
                     "N", "O", "P", "Q", "R", "S", "T", "U", "V", "W", "X", "Y", "Z">>
ascii_lowercase == <<"a", "b", "c", "d", "e", "f", "g", "h", "i", "j", "k", "l", "m",
                     "n", "o", "p", "q", "r", "s", "t", "u", "v", "w", "x", "y", "z">>

Range(f) == {f[i] : i \in DOMAIN f}
Index(f, x) == CHOOSE i \in DOMAIN f : f[i] = x

\* str.lower() on the parts that have an upper case form here
lower == [c \in Range(ascii_uppercase) |-> ascii_lowercase[Index(ascii_uppercase, c)]] @@
         ("Enter" :> "enter") @@ ("Tab" :> "tab") @@ ("Ctrl" :> "ctrl")

Lower(k) == [i \in 1..Len(k) |-> IF k[i] \in DOMAIN lower THEN lower[k[i]] ELSE k[i]]

\* str.upper() and ord() on the one-character suffixes of a ctrl+ key
upper == [c \in Range(ascii_lowercase) |-> ascii_uppercase[Index(ascii_lowercase, c)]] @@
         [c \in Range(ascii_uppercase) |-> c] @@ ("1" :> "1")
ord == [c \in Range(ascii_uppercase) |-> 64 + Index(ascii_uppercase, c)] @@
       [c \in Range(ascii_lowercase) |-> 96 + Index(ascii_lowercase, c)] @@ ("1" :> 49)

\* str.encode("utf-8") on the characters of the events
utf8 == ("a" :> <<97>>) @@ ("A" :> <<65>>) @@ ("\r" :> <<13>>) @@ ("U+00E9" :> <<195, 169>>)

\* lines 172-190
key_map ==
    (<<"enter">> :> <<10>>) @@ (<<"return">> :> <<13>>) @@ (<<"tab">> :> <<9>>) @@
    (<<"escape">> :> <<27>>) @@ (<<"esc">> :> <<27>>) @@ (<<"backspace">> :> <<127>>) @@
    (<<"shift", "tab">> :> <<27, 91, 90>>) @@
    (<<"up">> :> <<27, 91, 65>>) @@ (<<"down">> :> <<27, 91, 66>>) @@
    (<<"right">> :> <<27, 91, 67>>) @@ (<<"left">> :> <<27, 91, 68>>) @@
    (<<"home">> :> <<27, 91, 72>>) @@ (<<"end">> :> <<27, 91, 70>>) @@
    (<<"pageup">> :> <<27, 91, 53, 126>>) @@ (<<"pagedown">> :> <<27, 91, 54, 126>>) @@
    (<<"insert">> :> <<27, 91, 50, 126>>) @@ (<<"delete">> :> <<27, 91, 51, 126>>)

\* lines 208-217
special ==
    ("space" :> <<0>>) @@ ("@" :> <<0>>) @@ ("[" :> <<27>>) @@ ("\\" :> <<28>>) @@
    ("]" :> <<29>>) @@ ("^" :> <<30>>) @@ ("_" :> <<31>>) @@ ("?" :> <<127>>)

\* _ctrl_sequence without the mask of line 222
_ctrl_sequence_unmasked(suffix) ==
    IF suffix \in DOMAIN special THEN special[suffix]
    ELSE IF suffix \in DOMAIN upper THEN <<ord[upper[suffix]]>>
    ELSE NoBytes

\* _ctrl_sequence(suffix), lines 218-223; `& 0x1F` keeps the low five bits
_ctrl_sequence(suffix) ==
    IF suffix \in DOMAIN special THEN special[suffix]
    ELSE IF suffix \in DOMAIN upper THEN <<ord[upper[suffix]] % 32>>
    ELSE NoBytes

\* _translate_key with the aliases tried before the key itself
key_candidates_aliases_first(event) ==
    [i \in 1..Len(event.aliases) |-> Lower(event.aliases[i])] \o <<Lower(event.key)>>

\* line 170: the key, then its aliases, in lower case
key_candidates(event) ==
    <<Lower(event.key)>> \o [i \in 1..Len(event.aliases) |-> Lower(event.aliases[i])]

\* line 197: candidate.startswith("ctrl+") or candidate.startswith("control+")
IsCtrl(candidate) == Len(candidate) >= 2 /\ candidate[1] \in {"ctrl", "control"}

First(S) == CHOOSE i \in S : \A j \in S : i <= j

\* _translate_key with the loop of lines 196-201 run before that of lines 192-194
_translate_key_ctrl_first(event) ==
    LET cands == key_candidates(event)
        named == {i \in 1..Len(cands) : cands[i] \in DOMAIN key_map}
        ctrl == {i \in 1..Len(cands) :
                    /\ IsCtrl(cands[i])
                    /\ _ctrl_sequence(cands[i][Len(cands[i])]) # NoBytes}
    IN IF ctrl # {} THEN _ctrl_sequence(cands[First(ctrl)][Len(cands[First(ctrl)])])
       ELSE IF named # {} THEN key_map[cands[First(named)]]
       ELSE IF event.character # <<>> THEN utf8[event.character[1]]
       ELSE NoBytes

\* _translate_key(event), lines 169-205
_translate_key(event) ==
    LET cands == key_candidates(event)
        named == {i \in 1..Len(cands) : cands[i] \in DOMAIN key_map}
        ctrl == {i \in 1..Len(cands) :
                    /\ IsCtrl(cands[i])
                    /\ _ctrl_sequence(cands[i][Len(cands[i])]) # NoBytes}
    IN IF named # {} THEN key_map[cands[First(named)]]
       ELSE IF ctrl # {} THEN _ctrl_sequence(cands[First(ctrl)][Len(cands[First(ctrl)])])
       ELSE IF event.character # <<>> THEN utf8[event.character[1]]
       ELSE NoBytes

\* the key events of the model: the named keys, Ctrl with every letter in
\* either case and with the punctuation of `special`, other keys
CtrlKeys ==
    {<<c, x>> : c \in {"ctrl", "control"},
                x \in Range(ascii_lowercase) \cup Range(ascii_uppercase) \cup DOMAIN special}
KeyNames ==
    DOMAIN key_map \cup CtrlKeys \cup
    {<<"Enter">>, <<"Ctrl", "M">>, <<"ctrl", "up">>, <<"ctrl", "shift", "z">>, <<"ctrl", "1">>,
     <<"a">>, <<"A">>, <<"f1">>}
AliasNames == {<<"enter">>, <<"tab">>, <<"ctrl", "m">>, <<"ctrl", "i">>, <<"f1">>}
Aliases == {<<>>} \cup {<<a>> : a \in AliasNames}
             \cup {<<a, b>> : a \in {<<"f1">>, <<"ctrl", "m">>}, b \in {<<"tab">>, <<"ctrl", "i">>}}
Characters == {<<>>} \cup {<<c>> : c \in DOMAIN utf8}
KeyEvents == [key : KeyNames, aliases : Aliases, character : Characters]

\* the events on_key is given
PaneKeys == {[key |-> <<"enter">>, aliases |-> <<>>, character |-> <<"\r">>],
             [key |-> <<"f1">>, aliases |-> <<>>, character |-> <<>>]}

\* the input handlers testing and writing to the PTYProcess made last, active
\* or not
input_process_made_last == IF nprocs > 0 THEN nprocs ELSE None

\* the object on_key and the mouse handlers test against None and write to:
\* self._process as it is when the event is handled (lines 125-129, 133-136)
input_process == _process

\* on_key(event), lines 124-130
on_key(event, osOk) ==
    /\ ~LoopBlocked
    /\ called' = "on_key"
    /\ LET data == _translate_key(event)
       IN IF input_process # None /\ data # NoBytes /\ data # <<>>
          THEN write_effect(input_process, TRUE, osOk)
          ELSE UNCHANGED <<proc, wr>>
    /\ UNCHANGED <<paneVars, lockVars, taskVars, nprocs, readers, kern, hist, fed, chunk, stream, output, message,
                   lateCall, rz, inputVars>>

\* _translate_key applied to the event drawn
translate ==
    /\ keyData = Untranslated
    /\ keyData' = _translate_key(keyEvent)
    /\ UNCHANGED <<paneVars, lockVars, taskVars, objVars, kern, obsVars, rz, called, keyEvent, mouseEvent, mouseData,
                   renderVars, envVars, argVars>>

\* ------------------------------------------------------------------------
\* TerminalPane.on_mouse_*, _send_mouse, _encode_x10
\*
\* A byte string is the sequence of its byte values.

Min(a, b) == IF a <= b THEN a ELSE b

\* Python's a & b and a | b on non-negative ints
RECURSIVE BitAnd(_, _)
BitAnd(a, b) ==
    IF a = 0 \/ b = 0 THEN 0
    ELSE (IF a % 2 = 1 /\ b % 2 = 1 THEN 1 ELSE 0) + 2 * BitAnd(a \div 2, b \div 2)

RECURSIVE BitOr(_, _)
BitOr(a, b) ==
    IF a = 0 THEN b
    ELSE IF b = 0 THEN a
    ELSE (IF a % 2 = 1 \/ b % 2 = 1 THEN 1 ELSE 0) + 2 * BitOr(a \div 2, b \div 2)

\* the decimal digits an f-string formats a non-negative int with, in ASCII
RECURSIVE Decimal(_)
Decimal(n) == IF n < 10 THEN <<48 + n>> ELSE Decimal(n \div 10) \o <<48 + (n % 10)>>

\* _button_code(button), lines 225-234
_button_code(button) ==
    LET mapping == (IntButton(0) :> 0) @@ (IntButton(1) :> 1) @@ (IntButton(2) :> 2) @@
                   (StrButton("left") :> 0) @@ (StrButton("middle") :> 1) @@
                   (StrButton("right") :> 2)
    IN IF button \in DOMAIN mapping THEN mapping[button] ELSE 0

\* _modifier_bits(event), lines 236-244
_modifier_bits(event) ==
    LET bits0 == 0
        bits1 == IF event.shift THEN BitOr(bits0, 4) ELSE bits0
        bits2 == IF event.meta THEN BitOr(bits1, 8) ELSE bits1
    IN IF event.ctrl THEN BitOr(bits2, 16) ELSE bits2

\* bytes([...]), lines 292-303: ValueError, hence None, unless every value is a byte
bytes(values) ==
    IF \A i \in 1..Len(values) : values[i] \in 0..255 THEN values ELSE NoBytes

\* _encode_x10(button_code, col, row, pressed, modifiers), lines 268-303
_encode_x10(button_code, col, row, pressed, modifiers) ==
    IF button_code < 0 THEN NoBytes
    ELSE LET base == IF pressed THEN button_code ELSE 3
             legacy_mods == _modifier_bits(modifiers)
             legacy_button == IF base >= 64 THEN base
                              ELSE BitOr(BitAnd(base, 3), legacy_mods)
         IN bytes(<<27, 91, 77, legacy_button + 32, Min(col, 255) + 32, Min(row, 255) + 32>>)

\* the SGR report of lines 257-261
sgr_report(button_code, col, row, pressed, modifiers) ==
    LET mods == BitOr(button_code, _modifier_bits(modifiers))
    IN <<27, 91, 60>> \o Decimal(mods) \o <<59>> \o Decimal(col) \o <<59>> \o Decimal(row)
          \o <<IF pressed THEN 77 ELSE 109>>

\* _send_mouse reporting the zero-based offset as it is
_send_mouse_zero_based(x, y, button_code, pressed, modifiers) ==
    IF _process = None THEN <<>>
    ELSE LET col == Max(0, x)
             row == Max(0, y)
             sgr == sgr_report(button_code, col, row, pressed, modifiers)
             legacy == _encode_x10(button_code, col, row, pressed, modifiers)
         IN IF legacy # NoBytes THEN <<sgr, legacy>> ELSE <<sgr>>

\* _send_mouse(x, y, button_code, pressed, modifiers), lines 246-266: the byte
\* strings it passes to _process.write, in order
_send_mouse(x, y, button_code, pressed, modifiers) ==
    IF _process = None THEN <<>>
    ELSE LET col == Max(0, x) + 1
             row == Max(0, y) + 1
             sgr == sgr_report(button_code, col, row, pressed, modifiers)
             legacy == _encode_x10(button_code, col, row, pressed, modifiers)
         IN IF legacy # NoBytes THEN <<sgr, legacy>> ELSE <<sgr>>

\* the handlers with on_mouse_up passing the released button's code
mouse_code_release_keeps_button(event) ==
    CASE event.kind \in {"down", "up"} -> <<_button_code(event.button), event.kind = "down">>
      [] event.kind = "move" ->
            IF event.button = NoButton THEN <<>>
            ELSE <<BitOr(_button_code(event.button), 32), TRUE>>
      [] event.kind = "scroll_up" -> <<64, TRUE>>
      [] event.kind = "scroll_down" -> <<65, TRUE>>

\* the button code and the pressed flag each handler passes to _send_mouse
\* (lines 135, 142, 151, 158, 165); <<>> where the handler returns before
mouse_code(event) ==
    CASE event.kind = "down" -> <<_button_code(event.button), TRUE>>
      [] event.kind = "up" -> <<3, FALSE>>
      [] event.kind = "move" ->
            IF event.button = NoButton THEN <<>>
            ELSE <<BitOr(_button_code(event.button), 32), TRUE>>
      [] event.kind = "scroll_up" -> <<64, TRUE>>
      [] event.kind = "scroll_down" -> <<65, TRUE>>

\* what on_mouse_down / _up / _move / _scroll_up / _scroll_down write, lines 132-167
mouse_writes(event) ==
    IF input_process = None \/ mouse_code(event) = <<>> THEN <<>>
    ELSE _send_mouse(event.x, event.y, mouse_code(event)[1], mouse_code(event)[2], event)

\* the mouse events of the model
Xs == {-1, 5, 222, 223, 300}
Ys == {10, 223}
Buttons == {NoButton, IntButton(0), IntButton(1), IntButton(2), IntButton(3),
            StrButton("left"), StrButton("middle"), StrButton("right")}
MouseKinds == {"down", "up", "move", "scroll_up", "scroll_down"}
MouseEvents ==
    {e \in [kind : MouseKinds, button : Buttons, x : Xs, y : Ys,
            shift : BOOLEAN, meta : BOOLEAN, ctrl : BOOLEAN] :
        /\ e.kind \in {"scroll_up", "scroll_down"} => e.button = NoButton
        /\ e.kind = "down" => e.button # NoButton
        /\ e.kind = "up" => e.button \in {IntButton(0), IntButton(1), IntButton(2)}
        /\ e.kind = "move" => e.button \in {NoButton, IntButton(0), IntButton(1), IntButton(2)}}

\* one of the mouse handlers on `event`; each write(data) it makes is taken by
\* the kernel (osOk) or fails
on_mouse(event, osOk) ==
    /\ ~LoopBlocked
    /\ called' = "on_mouse_" \o event.kind
    /\ mouseEvent' = event
    /\ mouseData' = mouse_writes(event)
    /\ IF mouse_writes(event) # <<>>
       THEN write_effect(input_process, TRUE, osOk)
       ELSE UNCHANGED <<proc, wr>>
    /\ UNCHANGED <<paneVars, lockVars, taskVars, nprocs, readers, kern, hist, fed, chunk, stream, output, message,
                   lateCall, rz, keyEvent, keyData, renderVars, envVars, argVars>>

\* ------------------------------------------------------------------------
\* TerminalPane._update_display, _style_from_cell, _normalize_color
\*
\* A Text is the sequence of its characters, each with the style of the
\* append that put it there.  A cell is what pyte keeps at a position of the
\* buffer; buffer_row.get(col) is None where the row has no cell.

NoStyle == [color |-> "None", bgcolor |-> "None", bold |-> FALSE, italic |-> FALSE,
            underline |-> FALSE, strike |-> FALSE, blink |-> FALSE, reverse |-> FALSE]

NoCell == [data |-> "None", fg |-> "default", bg |-> "default", bold |-> FALSE,
           italics |-> FALSE, underscore |-> FALSE, strikethrough |-> FALSE, blink |-> FALSE,
           reverse |-> FALSE]

Char(data) == [NoCell EXCEPT !.data = data]

\* buffer_row.get(col), line 327
buffer_get(buf, row, col) == IF <<row, col>> \in DOMAIN buf THEN buf[<<row, col>>] ELSE NoCell

\* lines 385-396
color_map ==
    ("brightblack" :> "bright_black") @@ ("brightred" :> "bright_red") @@
    ("brightgreen" :> "bright_green") @@ ("brightbrown" :> "bright_yellow") @@
    ("brightblue" :> "bright_blue") @@ ("brightmagenta" :> "bright_magenta") @@
    ("brightcyan" :> "bright_cyan") @@ ("brightwhite" :> "bright_white") @@
    ("brown" :> "yellow") @@ ("bfightmagenta" :> "bright_magenta")

\* _normalize_color(value), lines 378-403, on the colour names of the cells
_normalize_color(value) ==
    IF value \in {"None", "default"} THEN "None"
    ELSE IF value \in DOMAIN color_map THEN color_map[value]
    ELSE value

\* _style_from_cell(cell, is_cursor), lines 342-376; None is NoStyle
_style_from_cell(cell, is_cursor) ==
    IF cell = NoCell
    THEN [NoStyle EXCEPT !.reverse = is_cursor]
    ELSE [color |-> _normalize_color(cell.fg),
          bgcolor |-> _normalize_color(cell.bg),
          bold |-> cell.bold, italic |-> cell.italics, underline |-> cell.underscore,
          strike |-> cell.strikethrough, blink |-> cell.blink,
          reverse |-> IF is_cursor THEN ~cell.reverse ELSE cell.reverse]

\* str.rstrip() strips these
Whitespace == {" ", "\n", "\t"}

\* the string literal of line 332: three characters, U+00E2 U+2013 U+02C6
cursor_block == <<"U+00E2", "U+2013", "U+02C6">>

\* Text.rstrip(), line 335: the trailing whitespace of the line is removed,
\* whatever its style
RECURSIVE rstrip(_)
rstrip(line) ==
    IF line # <<>> /\ line[Len(line)].ch \in Whitespace
    THEN rstrip(SubSeq(line, 1, Len(line) - 1))
    ELSE line

\* lines 327-334: what one cell appends to the line
render_cell(buf, cur, row, col) ==
    LET cell == buffer_get(buf, row, col)
        data == IF cell # NoCell /\ cell.data # "" THEN cell.data ELSE " "
        char == IF data = "NUL" THEN " " ELSE data
        is_cursor == ~cur.hidden /\ <<cur.x, cur.y>> = <<col, row>>
        display_char == IF is_cursor /\ char = " " THEN cursor_block ELSE <<char>>
        style == _style_from_cell(cell, is_cursor)
    IN [i \in 1..Len(display_char) |-> [ch |-> display_char[i], style |-> style]]

\* lines 325-335: the line of one row
RECURSIVE render_cells(_, _, _, _)
render_cells(buf, cur, row, ncols) ==
    IF ncols = 0 THEN <<>>
    ELSE render_cells(buf, cur, row, ncols - 1) \o render_cell(buf, cur, row, ncols - 1)

render_row(buf, cur, row, columns) == rstrip(render_cells(buf, cur, row, columns))

\* _update_display, lines 317-339: the Text it leaves in _display
RECURSIVE render_rows(_, _, _, _, _)
render_rows(buf, cur, nrows, columns, lines) ==
    IF nrows = 0 THEN <<>>
    ELSE render_rows(buf, cur, nrows - 1, columns, lines)
           \o render_row(buf, cur, nrows - 1, columns)
           \o (IF nrows - 1 < lines - 1 THEN <<[ch |-> "\n", style |-> NoStyle]>> ELSE <<>>)

_update_display(buf, cur) == render_rows(buf, cur, screenSize[2], screenSize[1], screenSize[2])

\* the cells pyte may leave at a position: none, a blank, a blank with a
\* background colour, NUL, a letter, a letter with attributes, a letter in
\* reverse video
Cells ==
    {NoCell, Char(" "), [Char(" ") EXCEPT !.bg = "red"], Char("NUL"), Char("x"),
     [Char("x") EXCEPT !.fg = "brown", !.bold = TRUE], [Char("x") EXCEPT !.reverse = TRUE]}

\* the positions whose cell is told apart: the last two of the first row
TrackedCells == {<<0, screenSize[1] - 2>>, <<0, screenSize[1] - 1>>}

\* the contents of the screen after a feed, and its cursor
Buffers ==
    {[pos \in {q \in TrackedCells : f[q] # NoCell} |-> f[pos]] : f \in [TrackedCells -> Cells]}
Cursors ==
    {[x |-> 0, y |-> 0, hidden |-> TRUE]} \cup
    {[x |-> x, y |-> 0, hidden |-> FALSE] : x \in {0, screenSize[1] - 1}}

\* _on_data with data: _handle_output feeds the chunk to the stream, which
\* leaves the screen with the cells `buf` and the cursor `cur`, and
\* _update_display renders it
feed(p, buf, cur) ==
    /\ ~LoopBlocked
    /\ p \in readers
    /\ ReadGivesData(p)
    /\ _on_data(p)
    /\ buffer' = buf
    /\ cursor' = cur
    /\ _display' = _update_display(buf, cur)
    /\ UNCHANGED <<_screen, screenSize, size, lockVars, taskVars, nprocs, lateCall, wr, rz, called,
                   keyEvent, keyData, mouseEvent, mouseData, envVars, argVars>>

\* ------------------------------------------------------------------------
\* PTYProcess.terminate and PTYProcess.wait called on an object by any coroutine.
\* (The pane calls terminate() once for an object and nothing else writes its pid
\* meanwhile, which is why _terminate_blocking_kill and _terminate_blocking_wait
\* above take the lines of _terminate_blocking two at a time.  Here every read of
\* self.pid is a step of the worker thread.)

\* terminate(): the loop hands _terminate_blocking to a worker thread
terminate(t, p) ==
    /\ pc[t] = "idle"
    /\ p <= nprocs
    /\ pc' = [pc EXCEPT ![t] = "term_check"]
    /\ tproc' = [tproc EXCEPT ![t] = p]
    /\ UNCHANGED <<paneVars, lockVars, objVars, kern, obsVars, callVars>>

\* _terminate_blocking, lines 149-150: `if self.pid is None: return`
_terminate_blocking_check(t) ==
    /\ pc[t] = "term_check"
    /\ pc' = [pc EXCEPT ![t] = IF proc[tproc[t]].pid = None THEN "term_done" ELSE "term_kill"]
    /\ UNCHANGED <<paneVars, lockVars, tproc, objVars, kern, obsVars, callVars>>

\* _terminate_blocking, lines 151-154: os.kill(self.pid, SIGTERM).  self.pid is
\* read again: os.kill(None, ...) raises TypeError, which nothing catches.  The
\* signal to a child that is gone is lost (ProcessLookupError is swallowed).
_terminate_blocking_signal(t) ==
    /\ pc[t] = "term_kill"
    /\ LET pid == proc[tproc[t]].pid
       IN IF pid = None
          THEN /\ pc' = [pc EXCEPT ![t] = "term_raised"]
               /\ UNCHANGED kern
          ELSE /\ pc' = [pc EXCEPT ![t] = "term_wait"]
               /\ kern' = IF kern[pid].child = "running"
                          THEN [kern EXCEPT ![pid].sigterm = TRUE]
                          ELSE kern
    /\ UNCHANGED <<paneVars, lockVars, tproc, objVars, obsVars, callVars>>

\* _terminate_blocking, line 156: os.waitpid(self.pid, 0) is entered with the
\* value self.pid has now; os.waitpid(None, 0) raises TypeError
_terminate_blocking_enter_wait(t) ==
    /\ pc[t] = "term_wait"
    /\ pc' = [pc EXCEPT ![t] = IF proc[tproc[t]].pid = None THEN "term_raised"
                                                           ELSE "term_waiting"]
    /\ UNCHANGED <<paneVars, lockVars, tproc, objVars, kern, obsVars, callVars>>

\* _terminate_blocking, lines 156-158: os.waitpid returns once the child is dead:
\* it reaps it, or finds it reaped (ChildProcessError is swallowed).  The pid an
\* object has got is the index of its child.
_terminate_blocking_reap(t) ==
    /\ pc[t] = "term_waiting"
    /\ kern[tproc[t]].child \in {"zombie", "reaped"}
    /\ kern' = [kern EXCEPT ![tproc[t]].child = "reaped"]
    /\ pc' = [pc EXCEPT ![t] = "term_set"]
    /\ UNCHANGED <<paneVars, lockVars, tproc, objVars, obsVars, callVars>>

\* _terminate_blocking, line 159: self.pid = None
_terminate_blocking_clear(t) ==
    /\ pc[t] = "term_set"
    /\ proc' = [proc EXCEPT ![tproc[t]].pid = None]
    /\ pc' = [pc EXCEPT ![t] = "term_done"]
    /\ UNCHANGED <<paneVars, lockVars, tproc, nprocs, readers, kern, obsVars, callVars>>

\* wait(), lines 91-93: None at once without a pid, else _wait_blocking on a
\* worker thread
wait(t, p) ==
    /\ pc[t] = "idle"
    /\ p <= nprocs
    /\ IF proc[p].pid = None
       THEN UNCHANGED <<pc, tproc>>
       ELSE /\ pc' = [pc EXCEPT ![t] = "wait_check"]
            /\ tproc' = [tproc EXCEPT ![t] = p]
    /\ UNCHANGED <<paneVars, lockVars, objVars, kern, obsVars, callVars>>

\* _wait_blocking, lines 162-165: the pid check, then os.waitpid(self.pid, 0)
\* entered with the value self.pid has then
_wait_blocking_check(t) ==
    /\ pc[t] = "wait_check"
    /\ pc' = [pc EXCEPT ![t] = IF proc[tproc[t]].pid = None THEN "wait_done" ELSE "wait_wait"]
    /\ UNCHANGED <<paneVars, lockVars, tproc, objVars, kern, obsVars, callVars>>

_wait_blocking_enter_wait(t) ==
    /\ pc[t] = "wait_wait"
    /\ pc' = [pc EXCEPT ![t] = IF proc[tproc[t]].pid = None THEN "wait_raised"
                                                           ELSE "wait_waiting"]
    /\ UNCHANGED <<paneVars, lockVars, tproc, objVars, kern, obsVars, callVars>>

\* _wait_blocking, lines 165-172: os.waitpid returns once the child is dead
_wait_blocking_reap(t) ==
    /\ pc[t] = "wait_waiting"
    /\ kern[tproc[t]].child \in {"zombie", "reaped"}
    /\ kern' = [kern EXCEPT ![tproc[t]].child = "reaped"]
    /\ pc' = [pc EXCEPT ![t] = "wait_done"]
    /\ UNCHANGED <<paneVars, lockVars, tproc, objVars, obsVars, callVars>>

\* the loop resumes the coroutine that awaited terminate() or wait(), with the
\* result or the exception of the thread
thread_done(t) ==
    /\ pc[t] \in {"term_done", "term_raised", "wait_done", "wait_raised"}
    /\ pc' = [pc EXCEPT ![t] = "idle"]
    /\ tproc' = [tproc EXCEPT ![t] = None]
    /\ UNCHANGED <<paneVars, lockVars, objVars, kern, obsVars, callVars>>

\* ------------------------------------------------------------------------
\* resizing: TerminalPane.on_resize, _sync_dimensions, _resize; PTYProcess.resize

\* the sizes <<width, height>> the layout gives the widget (0: not laid out yet)
Sizes == {<<0, 0>>, <<12, 7>>}

\* the arguments <<rows, cols>> a PTYProcess.resize call is given
ResizeArgs == {<<0, 12>>, <<7, 0>>, <<7, 12>>}

\* _resize without the comparison of line 407
_resize_changed_always(cols, rows) == TRUE

\* _resize, line 407: the size asked for differs from the screen's
_resize_changed(cols, rows) == cols # screenSize[1] \/ rows # screenSize[2]

\* PTYProcess.resize(rows, cols), lines 84-87: the object and the kernel's side it
\* leaves, and whether _set_winsize got to its ioctl
resize_call(p, rows, cols) ==
    [obj |-> [proc[p] EXCEPT !.rows = rows, !.cols = cols],
     kern |-> _set_winsize(kern, proc[p].fd, rows, cols),
     ioctl |-> _set_winsize_ioctl(proc[p].fd, rows, cols)]

\* TerminalPane._resize(cols, rows), lines 405-413
_resize(cols, rows) ==
    LET changed == _resize_changed(cols, rows)
        r == resize_call(_process, rows, cols)
    IN /\ screenSize' = IF changed THEN <<cols, rows>> ELSE screenSize
       /\ IF _process # None
          THEN /\ proc' = [proc EXCEPT ![_process] = r.obj]
               /\ kern' = r.kern
          ELSE UNCHANGED <<proc, kern>>
       /\ rz' = [op |-> "_resize", process |-> _process, rows |-> rows, cols |-> cols,
                 screen |-> changed, display |-> changed,
                 pty |-> (_process # None),
                 ioctl |-> (_process # None /\ r.ioctl),
                 prev |-> rz.prev]

\* on_resize(event), lines 119-122: the Resize event carries the size the layout
\* has just given the widget
on_resize(w, h) ==
    /\ ~LoopBlocked
    /\ size' = <<w, h>>
    /\ _resize(Max(10, w), Max(5, h))
    /\ called' = "on_resize"
    /\ UNCHANGED <<_process, _screen, lockVars, taskVars, nprocs, readers, obsVars, inputVars>>

\* the layout changes the widget's size and the pane gets no Resize event for it
layout(w, h) ==
    /\ size # <<w, h>>
    /\ size' = <<w, h>>
    /\ UNCHANGED <<_process, _screen, screenSize, lockVars, taskVars, objVars, kern,
                   obsVars, callVars>>

\* _sync_dimensions, lines 420-422: the tick of set_interval(0.5, ...)
_sync_dimensions ==
    /\ ~LoopBlocked
    /\ _resize(_current_dimensions[1], _current_dimensions[2])
    /\ called' = "_sync_dimensions"
    /\ UNCHANGED <<_process, _screen, size, lockVars, taskVars, nprocs, readers, obsVars,
                   inputVars>>

\* a PTYProcess.resize(rows, cols) call on any constructed PTYProcess
resize(p, rows, cols) ==
    /\ p <= nprocs
    /\ LET r == resize_call(p, rows, cols)
       IN /\ proc' = [proc EXCEPT ![p] = r.obj]
          /\ kern' = r.kern
          /\ rz' = [op |-> "resize", process |-> p, rows |-> rows, cols |-> cols,
                    screen |-> FALSE, display |-> FALSE, pty |-> TRUE, ioctl |-> r.ioctl,
                    prev |-> rz.prev]
    /\ UNCHANGED <<paneVars, lockVars, taskVars, nprocs, readers, obsVars, called, inputVars>>

\* ------------------------------------------------------------------------
Next ==
    \/ \E t \in Tasks, hasCommand \in BOOLEAN : start(t, hasCommand)
    \/ \E t \in Tasks : start_acquired(t)
    \/ \E t \in Tasks : stop(t) /\ UNCHANGED called
    \/ \E t \in Tasks : _terminate_blocking_kill(t)
    \/ \E t \in Tasks : _terminate_blocking_wait(t)
    \/ \E t \in Tasks : terminate_done(t)
    \/ \E t \in Tasks, forkOk \in BOOLEAN, execOk \in BOOLEAN : _fork(t, forkOk, execOk)
    \/ \E t \in Tasks : spawn_done(t)
    \/ \E p \in Procs : Len(kern[p].buf) < MaxBuf /\ child_write(p, NoChunk)
    \/ \E p \in Procs, code \in ExitCodes : child_exit(p, code)
    \/ \E p \in Procs : child_killed(p)
    \/ \E p \in Procs : pty_readable(p)

\* the pane under concurrent start() and stop() calls
Spec == Init /\ [][Next]_vars

\* one caller at a time drives the pane; every PTYProcess it made also gets
\* write() calls and late readiness events in each state of its life.  Such a
\* call runs on the loop and is over before anything else runs there: its
\* record (wr, lateCall) is read and cleared before the next step.
OneTask == {1}

Quiet == wr = NoWrite /\ ~lateCall /\ rz.op = "none" /\ called = "none"

call_returned ==
    /\ ~Quiet
    /\ wr' = NoWrite
    /\ lateCall' = FALSE
    /\ rz' = [NoResize EXCEPT !.prev = IF rz.op = "_resize"
                                       THEN <<rz.cols, rz.rows, _screen>>
                                       ELSE rz.prev]
    /\ called' = "none"
    /\ UNCHANGED <<paneVars, lockVars, taskVars, objVars, kern, hist, fed, chunk, stream, output, message, inputVars>>

NextProc ==
    \/ Quiet /\ nprocs < MaxObjs /\ \E t \in OneTask, hasCommand \in BOOLEAN : start(t, hasCommand)
    \/ Quiet /\ \E t \in OneTask : stop(t) /\ UNCHANGED called
    \/ Quiet /\ \E t \in OneTask : _terminate_blocking_kill(t)
    \/ Quiet /\ \E t \in OneTask : _terminate_blocking_wait(t)
    \/ Quiet /\ \E t \in OneTask : terminate_done(t)
    \/ Quiet /\ \E t \in OneTask, forkOk \in BOOLEAN, execOk \in BOOLEAN : _fork(t, forkOk, execOk)
    \/ Quiet /\ \E t \in OneTask : spawn_done(t)
    \/ Quiet /\ \E p \in Procs : Len(kern[p].buf) < MaxBuf /\ child_write(p, NoChunk)
    \/ Quiet /\ \E p \in Procs, code \in ExitCodes : child_exit(p, code)
    \/ Quiet /\ \E p \in Procs : child_killed(p)
    \/ Quiet /\ \E p \in Procs : pty_readable(p)
    \/ Quiet /\ \E p \in Procs : late_readiness(p)
    \/ Quiet /\ \E p \in Procs, hasData \in BOOLEAN, osOk \in BOOLEAN : write(p, hasData, osOk)
    \/ call_returned

SpecProc == Init /\ [][NextProc]_vars

\* one caller at a time drives a pane that the layout resizes, and makes up to
\* n PTYProcess objects
PaneSteps(n) ==
    \/ Quiet /\ nprocs < n /\ \E t \in OneTask, hasCommand \in BOOLEAN : start(t, hasCommand)
    \/ Quiet /\ \E t \in OneTask : stop(t) /\ called' = "stop"
    \/ Quiet /\ \E t \in OneTask : _terminate_blocking_kill(t)
    \/ Quiet /\ \E t \in OneTask : _terminate_blocking_wait(t)
    \/ Quiet /\ \E t \in OneTask : terminate_done(t)
    \/ Quiet /\ \E t \in OneTask, forkOk \in BOOLEAN, execOk \in BOOLEAN : _fork(t, forkOk, execOk)
    \/ Quiet /\ \E t \in OneTask : spawn_done(t)
    \/ Quiet /\ \E p \in Procs, code \in ExitCodes : child_exit(p, code)
    \/ Quiet /\ \E p \in Procs : child_killed(p)
    \/ Quiet /\ \E p \in Procs : pty_readable(p)
    \/ Quiet /\ \E s \in Sizes : on_resize(s[1], s[2])
    \/ Quiet /\ \E s \in Sizes : layout(s[1], s[2])
    \/ Quiet /\ _sync_dimensions
    \/ call_returned

NextPane == PaneSteps(MaxObjs)

SpecPane == Init /\ [][NextPane]_vars

NextSize == PaneSteps(MaxSeqObjs)

SpecSize == Init /\ [][NextSize]_vars

\* one caller at a time drives the pane and calls wait() on its processes, while
\* the loop serves output, key events and the ticks of the dimension sync
NextLoop ==
    \/ Quiet /\ nprocs < MaxSeqObjs /\ \E t \in OneTask, hasCommand \in BOOLEAN : start(t, hasCommand)
    \/ Quiet /\ \E t \in OneTask : stop(t) /\ called' = "stop"
    \/ Quiet /\ \E t \in OneTask : _terminate_blocking_kill(t)
    \/ Quiet /\ \E t \in OneTask : _terminate_blocking_wait(t)
    \/ Quiet /\ \E t \in OneTask : terminate_done(t)
    \/ Quiet /\ \E t \in OneTask, forkOk \in BOOLEAN, execOk \in BOOLEAN : _fork(t, forkOk, execOk)
    \/ Quiet /\ \E t \in OneTask : spawn_done(t)
    \/ Quiet /\ \E p \in Procs : Len(kern[p].buf) < MaxBuf /\ child_write(p, NoChunk)
    \/ Quiet /\ \E p \in Procs, code \in ExitCodes : child_exit(p, code)
    \/ Quiet /\ \E p \in Procs : child_killed(p)
    \/ Quiet /\ \E p \in Procs : pty_readable(p)
    \/ Quiet /\ \E t \in OneTask, p \in Procs : wait(t, p)
    \/ Quiet /\ \E t \in OneTask : _wait_blocking_check(t)
    \/ Quiet /\ \E t \in OneTask : _wait_blocking_enter_wait(t)
    \/ Quiet /\ \E t \in OneTask : _wait_blocking_reap(t)
    \/ Quiet /\ \E t \in OneTask : thread_done(t)
    \/ Quiet /\ _sync_dimensions
    \/ Quiet /\ \E event \in PaneKeys, osOk \in BOOLEAN : on_key(event, osOk)
    \/ call_returned

SpecLoop == Init /\ [][NextLoop]_vars

\* the number of the chunk p writes next: one more than the chunk it wrote last,
\* which the pty still holds or which the screen was fed last
NextChunk(p) ==
    LET b == kern[p].buf
    IN (IF b # <<>> THEN b[Len(b)] ELSE IF fed = p THEN chunk ELSE NoChunk) + 1

\* one caller at a time drives the pane; the chunks each child writes are numbered
NextData ==
    \/ nprocs < MaxSeqObjs /\ \E t \in OneTask, hasCommand \in BOOLEAN : start(t, hasCommand)
    \/ \E t \in OneTask : stop(t) /\ UNCHANGED called
    \/ \E t \in OneTask : _terminate_blocking_kill(t)
    \/ \E t \in OneTask : _terminate_blocking_wait(t)
    \/ \E t \in OneTask : terminate_done(t)
    \/ \E t \in OneTask, forkOk \in BOOLEAN, execOk \in BOOLEAN : _fork(t, forkOk, execOk)
    \/ \E t \in OneTask : spawn_done(t)
    \/ \E p \in Procs : /\ Len(kern[p].buf) < MaxPending
                         /\ NextChunk(p) <= MaxChunks
                         /\ child_write(p, NextChunk(p))
    \/ \E p \in Procs, code \in ExitCodes : child_exit(p, code)
    \/ \E p \in Procs : child_killed(p)
    \/ \E p \in Procs : pty_readable(p)

SpecData == Init /\ [][NextData]_vars

\* a pane that is started once; every chunk read is fed to the stream and the
\* screen it leaves is rendered
NextRender ==
    \/ nprocs = 0 /\ \E t \in OneTask, hasCommand \in BOOLEAN : start(t, hasCommand)
    \/ \E t \in OneTask, forkOk \in BOOLEAN, execOk \in BOOLEAN : _fork(t, forkOk, execOk)
    \/ \E t \in OneTask : spawn_done(t)
    \/ \E p \in Procs : Len(kern[p].buf) < MaxBuf /\ child_write(p, NoChunk)
    \/ \E p \in Procs, code \in ExitCodes : child_exit(p, code)
    \/ \E p \in Procs : ~ReadGivesData(p) /\ pty_readable(p)
    \/ \E p \in Procs, buf \in Buffers, cur \in Cursors : feed(p, buf, cur)

SpecRender == Init /\ [][NextRender]_vars

\* the chunks of the model: valid UTF-8 of one, two and three bytes per
\* character, an invalid byte alone and between characters, a sequence cut
\* short, a continuation byte without its start
DecodeChunks ==
    {<<65>>, <<195, 169>>, <<226, 130, 172>>,
     <<255>>, <<65, 255, 66>>, <<195>>, <<169, 65>>}

\* a pane that is started when it is idle; the child writes the chunks of
\* `output`, which are read and fed one by one
InitDecode ==
    /\ InitPane
    /\ NoEnvironment
    /\ output \in [1..MaxChunks -> DecodeChunks]
    /\ keyEvent = NoKey
    /\ keyData = Untranslated
    /\ mouseEvent = NoMouse
    /\ mouseData = <<>>

NextDecode ==
    \/ nprocs < MaxSeqObjs /\ _process = None
          /\ \E t \in OneTask, hasCommand \in BOOLEAN : start(t, hasCommand)
    \/ \E t \in OneTask, forkOk \in BOOLEAN, execOk \in BOOLEAN : _fork(t, forkOk, execOk)
    \/ \E t \in OneTask : spawn_done(t)
    \/ \E p \in Procs : /\ Len(kern[p].buf) < MaxPending
                         /\ NextChunk(p) \in DOMAIN output
                         /\ child_write(p, NextChunk(p))
    \/ \E p \in Procs, code \in ExitCodes : child_exit(p, code)
    \/ \E p \in Procs : pty_readable(p)

SpecDecode == InitDecode /\ [][NextDecode]_vars

\* a pane that is started when it is idle gets one mouse event of MouseEvents,
\* before the start, during it, while the child runs and after its exit
InitMouse ==
    /\ InitPane
    /\ NoEnvironment
    /\ output = <<>>
    /\ mouseEvent \in MouseEvents
    /\ mouseData = <<>>
    /\ keyEvent = NoKey
    /\ keyData = Untranslated

NextMouse ==
    \/ Quiet /\ nprocs < MaxSeqObjs /\ _process = None
             /\ \E t \in OneTask, hasCommand \in BOOLEAN : start(t, hasCommand)
    \/ Quiet /\ \E t \in OneTask, forkOk \in BOOLEAN, execOk \in BOOLEAN : _fork(t, forkOk, execOk)
    \/ Quiet /\ \E t \in OneTask : spawn_done(t)
    \/ Quiet /\ \E p \in Procs, code \in ExitCodes : child_exit(p, code)
    \/ Quiet /\ \E p \in Procs : pty_readable(p)
    \/ Quiet /\ \E osOk \in BOOLEAN : on_mouse(mouseEvent, osOk)
    \/ call_returned

SpecMouse == InitMouse /\ [][NextMouse]_vars

\* the mouse events the pane is given where only their target matters: a
\* press, and a move without a button (which reports nothing)
PaneMice ==
    {[NoMouse EXCEPT !.kind = "down", !.button = IntButton(1), !.x = 5, !.y = 10],
     [NoMouse EXCEPT !.kind = "move", !.x = 5, !.y = 10]}

\* one caller at a time starts, stops and restarts the pane while key and mouse
\* events arrive
NextInput ==
    \/ Quiet /\ nprocs < MaxObjs /\ \E t \in OneTask, hasCommand \in BOOLEAN : start(t, hasCommand)
    \/ Quiet /\ \E t \in OneTask : stop(t) /\ called' = "stop"
    \/ Quiet /\ \E t \in OneTask : _terminate_blocking_kill(t)
    \/ Quiet /\ \E t \in OneTask : _terminate_blocking_wait(t)
    \/ Quiet /\ \E t \in OneTask : terminate_done(t)
    \/ Quiet /\ \E t \in OneTask, forkOk \in BOOLEAN, execOk \in BOOLEAN : _fork(t, forkOk, execOk)
    \/ Quiet /\ \E t \in OneTask : spawn_done(t)
    \/ Quiet /\ \E p \in Procs, code \in ExitCodes : child_exit(p, code)
    \/ Quiet /\ \E p \in Procs : child_killed(p)
    \/ Quiet /\ \E p \in Procs : pty_readable(p)
    \/ Quiet /\ \E event \in PaneKeys, osOk \in BOOLEAN : on_key(event, osOk)
    \/ Quiet /\ \E event \in PaneMice, osOk \in BOOLEAN : on_mouse(event, osOk)
    \/ call_returned

SpecInput == Init /\ [][NextInput]_vars

\* the values of start()'s argv: None, an empty list, a command; and of
\* default_command as __init__ leaves it (lines 68: None for None and for an
\* empty list)
Argvs == {NoCommand, Command(<<>>), Command(<<"sh">>)}
DefaultCommands == {NoCommand, Command(<<"top">>)}

\* a pane made with or without default_command
InitCommand ==
    /\ InitPane
    /\ environ = NoVars
    /\ default_env = NoVars
    /\ startEnv = NoEnv
    /\ default_command \in DefaultCommands
    /\ startArgv = NoCommand
    /\ output = <<>>
    /\ keyEvent = NoKey
    /\ keyData = Untranslated
    /\ mouseEvent = NoMouse
    /\ mouseData = <<>>

\* a screen with a letter in the last column of its first row
LetterBuffer == [pos \in {<<0, screenSize[1] - 1>>} |-> Char("x")]

\* one caller at a time starts the pane with any argv, in every state of the
\* pane and of its process, whose output is read and rendered as it comes
NextCommand ==
    \/ Quiet /\ nprocs < MaxObjs /\ \E t \in OneTask, argv \in Argvs : start_call(t, argv)
    \/ Quiet /\ \E t \in OneTask : _terminate_blocking_kill(t)
    \/ Quiet /\ \E t \in OneTask : _terminate_blocking_wait(t)
    \/ Quiet /\ \E t \in OneTask : terminate_done(t)
    \/ Quiet /\ \E t \in OneTask, forkOk \in BOOLEAN, execOk \in BOOLEAN : _fork(t, forkOk, execOk)
    \/ Quiet /\ \E t \in OneTask : spawn_done(t)
    \/ Quiet /\ \E p \in Procs : Len(kern[p].buf) < MaxBuf /\ child_write(p, NoChunk)
    \/ Quiet /\ \E p \in Procs, code \in ExitCodes : child_exit(p, code)
    \/ Quiet /\ \E p \in Procs : child_killed(p)
    \/ Quiet /\ \E p \in Procs : ~ReadGivesData(p) /\ pty_readable(p)
    \/ Quiet /\ \E p \in Procs : feed(p, LetterBuffer, cursor)
    \/ call_returned

SpecCommand == InitCommand /\ [][NextCommand]_vars

\* one caller at a time starts, stops and restarts the pane; a child may close
\* its terminal before it exits
NextReap ==
    \/ nprocs < MaxObjs /\ \E t \in OneTask, hasCommand \in BOOLEAN : start(t, hasCommand)
    \/ \E t \in OneTask : stop(t) /\ UNCHANGED called
    \/ \E t \in OneTask : _terminate_blocking_kill(t)
    \/ \E t \in OneTask : _terminate_blocking_wait(t)
    \/ \E t \in OneTask : terminate_done(t)
    \/ \E t \in OneTask, forkOk \in BOOLEAN, execOk \in BOOLEAN : _fork(t, forkOk, execOk)
    \/ \E t \in OneTask : spawn_done(t)
    \/ \E p \in Procs : Len(kern[p].buf) < MaxBuf /\ child_write(p, NoChunk)
    \/ \E p \in Procs : child_close(p)
    \/ \E p \in Procs, code \in ExitCodes : child_exit(p, code)
    \/ \E p \in Procs : child_killed(p)
    \/ \E p \in Procs : pty_readable(p)

\* the loop runs every callback and coroutine that is ready, the worker
\* threads run on, and the kernel delivers a pending signal
FairReap ==
    /\ \A t \in OneTask : WF_vars(_terminate_blocking_kill(t))
    /\ \A t \in OneTask : WF_vars(_terminate_blocking_wait(t))
    /\ \A t \in OneTask : WF_vars(terminate_done(t))
    /\ \A t \in OneTask : WF_vars(\E forkOk \in BOOLEAN, execOk \in BOOLEAN : _fork(t, forkOk, execOk))
    /\ \A t \in OneTask : WF_vars(spawn_done(t))
    /\ \A p \in Procs : WF_vars(child_killed(p))
    /\ \A p \in Procs : WF_vars(pty_readable(p))

SpecReap == Init /\ [][NextReap]_vars /\ FairReap

\* the variables of the model's environments and the values each dict gives
\* them: a value names the dict it comes from
EnvKeys == {"TERM", "COLORTERM", "LANG"}
Environments(value) == {[k \in S |-> value] : S \in SUBSET EnvKeys}

\* a program with any of the variables in its environment, a pane made with
\* any default_env, started when it is idle with any env or none
InitEnv ==
    /\ InitPane
    /\ environ \in Environments("inherited")
    /\ default_env \in Environments("default_env")
    /\ startEnv \in {NoEnv} \cup {[isNone |-> FALSE, items |-> e] : e \in Environments("env")}
    /\ default_command = NoCommand
    /\ startArgv = NoCommand
    /\ output = <<>>
    /\ keyEvent = NoKey
    /\ keyData = Untranslated
    /\ mouseEvent = NoMouse
    /\ mouseData = <<>>

NextEnv ==
    \/ nprocs < MaxSeqObjs /\ _process = None
          /\ \E t \in OneTask, hasCommand \in BOOLEAN : start(t, hasCommand)
    \/ \E t \in OneTask, forkOk \in BOOLEAN, execOk \in BOOLEAN : _fork(t, forkOk, execOk)
    \/ \E t \in OneTask : spawn_done(t)
    \/ \E p \in Procs, code \in ExitCodes : child_exit(p, code)
    \/ \E p \in Procs : pty_readable(p)

SpecEnv == InitEnv /\ [][NextEnv]_vars

\* _translate_key on every key event of KeyEvents
InitKey ==
    /\ InitPane
    /\ NoEnvironment
    /\ output = <<>>
    /\ keyEvent \in KeyEvents
    /\ keyData = Untranslated
    /\ mouseEvent = NoMouse
    /\ mouseData = <<>>

NextKey == translate

SpecKey == InitKey /\ [][NextKey]_vars

\* coroutines that call terminate(), wait() and resize() on the PTYProcess of
\* a pane themselves, concurrently
NextCalls ==
    \/ Quiet /\ nprocs < MaxCallObjs /\ _process = None /\ \E t \in Tasks : start(t, TRUE)
    \/ Quiet /\ \E t \in Tasks, forkOk \in BOOLEAN, execOk \in BOOLEAN : _fork(t, forkOk, execOk)
    \/ Quiet /\ \E t \in Tasks : spawn_done(t)
    \/ Quiet /\ \E p \in Procs, code \in ExitCodes : child_exit(p, code)
    \/ Quiet /\ \E p \in Procs : child_killed(p)
    \/ Quiet /\ \E p \in Procs : pty_readable(p)
    \/ Quiet /\ \E t \in Tasks, p \in Procs : terminate(t, p)
    \/ Quiet /\ \E t \in Tasks : _terminate_blocking_check(t)
    \/ Quiet /\ \E t \in Tasks : _terminate_blocking_signal(t)
    \/ Quiet /\ \E t \in Tasks : _terminate_blocking_enter_wait(t)
    \/ Quiet /\ \E t \in Tasks : _terminate_blocking_reap(t)
    \/ Quiet /\ \E t \in Tasks : _terminate_blocking_clear(t)
    \/ Quiet /\ \E t \in Tasks, p \in Procs : wait(t, p)
    \/ Quiet /\ \E t \in Tasks : _wait_blocking_check(t)
    \/ Quiet /\ \E t \in Tasks : _wait_blocking_enter_wait(t)
    \/ Quiet /\ \E t \in Tasks : _wait_blocking_reap(t)
    \/ Quiet /\ \E t \in Tasks : thread_done(t)
    \/ Quiet /\ \E p \in Procs, a \in ResizeArgs : resize(p, a[1], a[2])
    \/ call_returned

SpecCalls == Init /\ [][NextCalls]_vars

\* ------------------------------------------------------------------------
\* The claims

Running(p) == kern[p].child = "running"
AllIdle == \A t \in Tasks : pc[t] = "idle"
InStartBody == {"start_kill", "start_wait", "start_reaped", "start_fork",
                "start_forked", "start_forkerr"}

\* C1: in every reachable state at most one child forked by the pane is alive
C1_AtMostOneAlive == Cardinality({p \in Procs : Running(p)}) <= 1

\* C2: when start() replaced a running process, the exit notification of the
\* old process is out before the first chunk of the new process reaches
\* _handle_output
C2_OldExitBeforeNewOutput ==
    \A q \in Procs :
        (fed = q /\ hist[q].pred # None) => hist[hist[q].pred].exitCount > 0

\* C3: a stop() called while a start() holds the lock takes effect after that
\* start: once both have returned the pane has no active process and the
\* process that start spawned is terminated
C3_StopSerializedBehindStart ==
    [][\A t \in Tasks :
          (pc[t] = "start_forked" /\ stopInStart /\ AllIdle')
              => (_process' = None /\ kern'[tproc[t]].child # "running")]_vars

\* C4: the bodies of two concurrent start() calls never interleave, and once
\* both have returned the only live child is the one spawned by the call that
\* got the lock last
C4_StartsSerialized ==
    /\ [](Cardinality({t \in Tasks : pc[t] \in InStartBody}) <= 1)
    /\ [][\A t \in Tasks :
            (pc[t] = "start_forked" /\ contended /\ AllIdle')
                => (\A p \in Procs : kern'[p].child = "running" => p = tproc[t])]_vars

\* C5: when start() replaces an active process, that process is reaped, its
\* descriptor closed and its reader unregistered before the new child is forked
C5_OldReleasedBeforeFork ==
    [][\A q \in Procs :
          (kern[q].child = "none" /\ kern'[q].child # "none" /\ hist[q].pred # None)
              => LET old == hist[q].pred
                 IN /\ kern[old].child = "reaped"
                    /\ proc[old].fd = None
                    /\ old \notin readers]_vars

\* C6: the zero-length read (or read error) of a PTYProcess makes one exit
\* callback and one close, and no later _on_data call makes another of either
C6_ExitAndCloseOnce ==
    \A p \in Procs :
        /\ hist[p].exitCount <= 1
        /\ hist[p].closeCount <= 1
        /\ hist[p].exitCount = hist[p].closeCount
        /\ hist[p].closeCount = 1 => (proc[p].fd = None /\ p \notin readers)

\* C6, its case: a PTYProcess that has seen its end of file gets one more _on_data call
C6_Witness ==
    /\ lateCall
    /\ \E p \in Procs : hist[p].exitCount = 1 /\ hist[p].closeCount = 1

\* C7: a screen is fed only chunks read from the process start() made it for
C7_ScreenFedByOwnProcess == fed \in {None, _screen}

\* C8: the exit notification of a process carries how it ended: its exit code,
\* or minus the signal that killed it, also when terminate() ended it
C8_ExitClassificationKept ==
    [][\A p \in Procs :
          hist'[p].exitCount > hist[p].exitCount
              => message'.returncode = ExitClassification(kern[p].status)]_vars

\* C9: when the executable is not found or the fork fails, start() raises, the
\* pane stays idle and no child of that start is left running
C9_SpawnFailureReported ==
    [][\A t \in Tasks :
          (/\ pc[t] \in {"start_forked", "start_forkerr"}
           /\ pc'[t] = "idle"
           /\ (pc[t] = "start_forkerr" \/ kern[tproc[t]].execFailed))
              => (/\ spawn_raises(t)
                  /\ _process' = None
                  /\ kern'[tproc[t]].child # "running")]_vars

\* C10: write() never raises, and when the process is not active or the
\* kernel fails the write, no byte reaches a child and the object is unchanged
C10_WriteNeverRaises ==
    wr.process # None =>
        /\ wr.outcome # "raised"
        /\ (~wr.active \/ ~wr.osOk) => (~wr.delivered /\ wr.unchanged)

\* C10, its cases: a write dropped on an object without descriptor, and a write
\* the kernel failed on a terminated process whose descriptor is still open
C10_Witness ==
    /\ wr.process # None
    /\ ~wr.active
    /\ wr.outcome = "swallowed"
    /\ proc[wr.process].pid = None

\* C13: _resize invokes the screen's resize exactly when the size asked for
\* differs from the screen's, and rebuilds the display only then; a second _resize
\* of the same screen to the same size invokes neither
C13_ResizeOnlyOnChange ==
    [][(rz.op = "none" /\ rz'.op = "_resize")
          => /\ rz'.screen <=> (<<rz'.cols, rz'.rows>> # screenSize)
             /\ rz'.display <=> rz'.screen
             /\ screenSize' = <<rz'.cols, rz'.rows>>
             /\ rz.prev = <<rz'.cols, rz'.rows, _screen>>
                    => (~rz'.screen /\ ~rz'.display)]_vars

\* C13, its case: the second of two _resize calls in a row with the same size
\* has returned
C13_Witness ==
    /\ rz.op = "_resize"
    /\ rz.prev = <<rz.cols, rz.rows, _screen>>
    /\ ~rz.screen
    /\ ~rz.display

\* the size of the display surface is the size last applied to the screen and,
\* when a process is active, to the process and its pty
SizeApplied ==
    /\ screenSize = _current_dimensions
    /\ _process # None =>
          /\ <<proc[_process].cols, proc[_process].rows>> = _current_dimensions
          /\ kern[_process].ws = <<proc[_process].rows, proc[_process].cols>>

\* C14: a tick of the dimension sync that finds the surface at the size last
\* applied invokes neither the screen's resize nor PTYProcess.resize and its ioctl
C14_SyncTickAppliesNothing ==
    [][(called = "none" /\ called' = "_sync_dimensions" /\ SizeApplied)
          => (~rz'.screen /\ ~rz'.pty /\ ~rz'.ioctl)]_vars

\* the child of the pane's last start(): spawned, alive, on the current screen,
\* and not being stopped
ActivePTY(p) ==
    /\ p = _screen
    /\ Running(p)
    /\ proc[p].fd # None
    /\ \A t \in Tasks : tproc[t] # p

\* C16: however resize requests were interleaved with start() and stop(), a
\* tick of the dimension sync that runs when no start() or stop() is in flight
\* leaves the screen and the window size of the active pty at the size requested
\* last, clamped to at least 10 columns and 5 rows
C16_LastSizeApplied ==
    [][(called = "none" /\ called' = "_sync_dimensions" /\ AllIdle)
          => /\ screenSize' = _current_dimensions
             /\ \A p \in Procs :
                   ActivePTY(p) => kern'[p].ws = <<_current_dimensions[2],
                                                  _current_dimensions[1]>>]_vars

\* C11: a stop() that finds no active process returns at once: it raises
\* nothing, awaits nothing, signals no child, and the process reference, the
\* screen and the display (rebuilt only by _handle_output and _resize) are as before
C11_StopIdleIsNoOp ==
    [][(called = "none" /\ called' = "stop" /\ _process = None)
          => /\ pc' = pc
             /\ kern' = kern
             /\ UNCHANGED <<_process, _screen, screenSize, fed, chunk, stream, output, rz, proc, readers>>]_vars

\* C11, its case: stop() has returned on a pane without active process
C11_Witness == called = "stop" /\ _process = None /\ AllIdle

\* C12: PTYProcess.terminate() never raises, whenever and however often it is
\* called: before spawn, after the child is gone, twice in a row, twice at once
C12_TerminateNeverRaises == \A t \in Tasks : pc[t] # "term_raised"

\* C15: PTYProcess.resize(rows, cols) with rows <= 0 or cols <= 0 issues no
\* ioctl and leaves the rows and cols of the object (and the pty) as they were
C15_NonPositiveResizeIsNoOp ==
    [][(rz.op = "none" /\ rz'.op = "resize" /\ (rz'.rows <= 0 \/ rz'.cols <= 0))
          => /\ ~rz'.ioctl
             /\ kern' = kern
             /\ proc'[rz'.process].rows = proc[rz'.process].rows
             /\ proc'[rz'.process].cols = proc[rz'.process].cols]_vars

\* C17: every chunk read from the descriptor of a process is the oldest chunk
\* the pty holds for it, is fed to the screen in the step that reads it, follows
\* the chunk of that process fed before it, and nothing is fed that was not read
C17_ChunksFedInOrder ==
    [][\A p \in Procs :
          /\ Len(kern'[p].buf) < Len(kern[p].buf)
                => /\ kern'[p].buf = Tail(kern[p].buf)
                   /\ fed' = p
                   /\ chunk' = Head(kern[p].buf)
                   /\ fed = p => chunk' = chunk + 1
          /\ (fed' = p /\ <<fed, chunk>> # <<fed', chunk'>>)
                => Len(kern'[p].buf) < Len(kern[p].buf)]_vars

\* C17, its case: the first two chunks of a process have been fed, its third
\* is waiting in the pty
C17_Witness ==
    \E p \in Procs : fed = p /\ chunk = 2 /\ kern[p].buf = <<3>> /\ p \in readers

\* the worker thread of t is blocked in os.waitpid on a child that has not exited
Waiting(t) == pc[t] \in InWaitpid /\ Running(tproc[t])

\* C18: while a terminate() or a wait() is blocked on a child that does not
\* exit, the loop goes on serving the readable descriptors, the ticks of the
\* dimension sync and the key events
C18_LoopServesDuringWait ==
    \A t \in Tasks :
        (Waiting(t) /\ Quiet)
            => /\ ENABLED _sync_dimensions
               /\ \A event \in PaneKeys : ENABLED on_key(event, TRUE)
               /\ \A p \in readers :
                     (kern[p].buf # <<>> \/ SlaveClosed(p)) => ENABLED pty_readable(p)

\* C18, its case: a tick of the dimension sync has run while stop() awaits the
\* terminate() of a child that got its SIGTERM and has not exited
C18_Witness ==
    \E t \in Tasks :
        /\ pc[t] = "stop_wait"
        /\ Running(tproc[t])
        /\ kern[tproc[t]].sigterm
        /\ called = "_sync_dimensions"

\* C19: a descriptor is registered with the loop only in non-blocking mode, and
\* every read _on_data makes (a chunk, or the end of file) is on a descriptor in
\* non-blocking mode
C19_NonBlockingBeforeReader ==
    /\ [](\A p \in readers : kern[p].nonblock)
    /\ [][\A p \in Procs :
            (Len(kern'[p].buf) < Len(kern[p].buf) \/ hist'[p].exitCount > hist[p].exitCount)
                => kern[p].nonblock]_vars

\* C19, its case: _on_data has read a chunk from the descriptor spawn() registered
C19_Witness == \E p \in readers : fed = p /\ kern[p].nonblock

\* C20: for an event whose key is one of the named keys, _translate_key returns
\* the byte sequence the table has for that key, whatever the character and the
\* aliases of the event are
C20_NamedKeyBytes ==
    (keyData # Untranslated /\ Lower(keyEvent.key) \in DOMAIN key_map)
        => keyData = key_map[Lower(keyEvent.key)]

\* C20, its case: a named key translated although an alias names another key
\* of the table and the event has a character
C20_Witness ==
    /\ keyData # Untranslated
    /\ keyEvent.key = <<"enter">>
    /\ keyEvent.aliases = <<<<"tab">>>>
    /\ keyEvent.character # <<>>
    /\ keyData = <<10>>

\* C21: for an event whose key is Ctrl with a letter, in either case, and none
\* of whose names is a key of the table, _translate_key returns the one byte
\* ord(letter.upper()) & 0x1F: 1 for A, ..., 26 for Z; Ctrl with @ or space
\* gives 0x00, with [ 0x1B, with \ 0x1C, with ] 0x1D, with ^ 0x1E, with _ 0x1F,
\* with ? 0x7F
CtrlPunctuation ==
    ("@" :> 0) @@ ("space" :> 0) @@ ("[" :> 27) @@ ("\\" :> 28) @@ ("]" :> 29) @@
    ("^" :> 30) @@ ("_" :> 31) @@ ("?" :> 127)

NoNamedCandidate(event) ==
    \A i \in 1..Len(key_candidates(event)) : key_candidates(event)[i] \notin DOMAIN key_map

C21_CtrlLetterByte ==
    (/\ keyData # Untranslated
     /\ Len(keyEvent.key) = 2
     /\ Lower(<<keyEvent.key[1]>>) \in {<<"ctrl">>, <<"control">>}
     /\ NoNamedCandidate(keyEvent))
        => LET x == keyEvent.key[2]
           IN /\ \A i \in 1..26 : x \in {ascii_uppercase[i], ascii_lowercase[i]} => keyData = <<i>>
              /\ x \in DOMAIN CtrlPunctuation => keyData = <<CtrlPunctuation[x]>>

\* C21, its case: Ctrl+Z in upper case translated to 0x1A although the event
\* has a character and an alias that is another Ctrl key
C21_Witness ==
    /\ keyData = <<26>>
    /\ keyEvent.key = <<"ctrl", "Z">>
    /\ keyEvent.aliases = <<<<"ctrl", "m">>>>
    /\ keyEvent.character # <<>>

\* C22: _translate_key looks the names of the event (its key, then its aliases)
\* up in a fixed order: when a name is a key of the table, the result is the
\* table's bytes of the first such name, whatever Ctrl forms and character the
\* event has; else when a name is a Ctrl form with a control byte, the result
\* is the byte of the first such name; else the UTF-8 bytes of the character;
\* and the result is None exactly when none of the three applies
NamedAt(event) ==
    {i \in 1..Len(key_candidates(event)) : key_candidates(event)[i] \in DOMAIN key_map}

CtrlAt(event) ==
    {i \in 1..Len(key_candidates(event)) :
        LET c == key_candidates(event)[i]
        IN /\ Len(c) >= 2
           /\ c[1] \in {"ctrl", "control"}
           /\ \/ c[Len(c)] \in DOMAIN CtrlPunctuation
              \/ c[Len(c)] \in Range(ascii_lowercase) \cup {"1"}}

C22_LookupOrder ==
    keyData # Untranslated =>
        LET cands == key_candidates(keyEvent)
            named == NamedAt(keyEvent)
            ctrl == CtrlAt(keyEvent)
        IN /\ named # {} => keyData = key_map[cands[First(named)]]
           /\ (named = {} /\ ctrl # {}) =>
                  keyData = _ctrl_sequence(cands[First(ctrl)][Len(cands[First(ctrl)])])
           /\ (named = {} /\ ctrl = {} /\ keyEvent.character # <<>>) =>
                  keyData = utf8[keyEvent.character[1]]
           /\ keyData = NoBytes <=> (named = {} /\ ctrl = {} /\ keyEvent.character = <<>>)

\* C22, its case: an alias that is a named key wins over the key's own Ctrl form
\* and over the character
C22_Witness ==
    /\ keyData = <<10>>
    /\ keyEvent.key = <<"ctrl", "m">>
    /\ keyEvent.aliases = <<<<"enter">>>>
    /\ keyEvent.character = <<"a">>

\* the numbers of the reports below, as ASCII decimal digits
Digits ==
    (0 :> <<48>>) @@ (1 :> <<49>>) @@ (2 :> <<50>>) @@ (3 :> <<51>>) @@
    (6 :> <<54>>) @@ (11 :> <<49, 49>>) @@ (223 :> <<50, 50, 51>>)

\* the button a press names: left 0, middle 1, right 2
PressedButton ==
    (IntButton(0) :> 0) @@ (IntButton(1) :> 1) @@ (IntButton(2) :> 2) @@
    (StrButton("left") :> 0) @@ (StrButton("middle") :> 1) @@ (StrButton("right") :> 2)

Unmodified(event) == ~event.shift /\ ~event.meta /\ ~event.ctrl

\* coordinates whose legacy bytes x + 1 + 32 and y + 1 + 32 are bytes
InLegacyRange(event) == event.x \in 0..222 /\ event.y \in 0..222

\* C23: a press at zero-based (x, y) with button b (left 0, middle 1, right 2)
\* and no modifiers, while a process is active, writes ESC [ < b ; x+1 ; y+1 M
\* and then ESC [ M followed by the bytes b+32, x+1+32, y+1+32; for (5, 10) and
\* the left button these are ESC[<0;6;11M and ESC[M with 32, 38, 43
C23_PressReports ==
    (/\ called = "on_mouse_down"
     /\ _process # None
     /\ mouseEvent.button \in DOMAIN PressedButton
     /\ Unmodified(mouseEvent)
     /\ InLegacyRange(mouseEvent))
        => LET b == PressedButton[mouseEvent.button]
               x == mouseEvent.x
               y == mouseEvent.y
           IN /\ mouseData =
                    << <<27, 91, 60>> \o Digits[b] \o <<59>> \o Digits[x + 1] \o <<59>>
                          \o Digits[y + 1] \o <<77>>,
                       <<27, 91, 77, b + 32, x + 1 + 32, y + 1 + 32>> >>
              /\ (b = 0 /\ x = 5 /\ y = 10) =>
                    mouseData = << <<27, 91, 60, 48, 59, 54, 59, 49, 49, 77>>,
                                   <<27, 91, 77, 32, 38, 43>> >>

\* C23, its case: the left button pressed at (5, 10) on a pane with a process
C23_Witness ==
    /\ called = "on_mouse_down"
    /\ _process # None
    /\ mouseEvent = [kind |-> "down", button |-> StrButton("left"), x |-> 5, y |-> 10,
                     shift |-> FALSE, meta |-> FALSE, ctrl |-> FALSE]
    /\ mouseData = << <<27, 91, 60, 48, 59, 54, 59, 49, 49, 77>>, <<27, 91, 77, 32, 38, 43>> >>

\* a mouse handler has just run on mouseEvent, with a process active, and the
\* event is one that is reported (not a move without a button)
MouseReported ==
    /\ called = "on_mouse_" \o mouseEvent.kind
    /\ _process # None
    /\ ~(mouseEvent.kind = "move" /\ mouseEvent.button = NoButton)

\* C24: every mouse action at non-negative coordinates, delivered while a
\* process is active, writes an SGR report and a legacy report, and the column
\* and row bytes of the legacy report are min(col, 255) + 32 and
\* min(row, 255) + 32
C24_BothReportsClamped ==
    (MouseReported /\ mouseEvent.x >= 0 /\ mouseEvent.y >= 0)
        => /\ Len(mouseData) = 2
           /\ SubSeq(mouseData[1], 1, 3) = <<27, 91, 60>>
           /\ SubSeq(mouseData[2], 1, 3) = <<27, 91, 77>>
           /\ mouseData[2][5] = Min(mouseEvent.x + 1, 255) + 32
           /\ mouseData[2][6] = Min(mouseEvent.y + 1, 255) + 32

\* the number a string of ASCII decimal digits denotes
RECURSIVE Number(_)
Number(ds) ==
    IF ds = <<>> THEN 0
    ELSE 10 * Number(SubSeq(ds, 1, Len(ds) - 1)) + (ds[Len(ds)] - 48)

\* the button code of an SGR report ESC [ < code ; col ; row M
SgrCode(report) ==
    Number(SubSeq(report, 4, First({i \in 4..Len(report) : report[i] = 59}) - 1))

\* Shift = 4, Meta = 8, Ctrl = 16
ModifierSum(event) ==
    (IF event.shift THEN 4 ELSE 0) + (IF event.meta THEN 8 ELSE 0) + (IF event.ctrl THEN 16 ELSE 0)

\* C25: a release, whichever button it names and whatever the modifiers, is
\* reported with code 3: the SGR report carries 3 plus the modifier bits and
\* ends in m, and the button byte of the legacy report is 3 plus the modifier
\* bits plus 32
C25_ReleaseIsCode3 ==
    (MouseReported /\ mouseEvent.kind = "up")
        => /\ Len(mouseData) >= 1
           /\ SgrCode(mouseData[1]) = 3 + ModifierSum(mouseEvent)
           /\ mouseData[1][Len(mouseData[1])] = 109
           /\ InLegacyRange(mouseEvent) => Len(mouseData) = 2
           /\ Len(mouseData) = 2 => mouseData[2][4] = 3 + ModifierSum(mouseEvent) + 32

\* C25, its case: the right button released with Shift held
C25_Witness ==
    /\ called = "on_mouse_up"
    /\ _process # None
    /\ mouseEvent.button = IntButton(2)
    /\ mouseEvent.shift /\ ~mouseEvent.meta /\ ~mouseEvent.ctrl
    /\ Len(mouseData) = 2
    /\ SgrCode(mouseData[1]) = 7
    /\ mouseData[2][4] = 39

\* the base code of a mouse action: the button of a press, 3 for a release,
\* the button plus 32 for a drag, 64 and 65 for the scroll directions
BaseCode(event) ==
    CASE event.kind = "down" -> PressedButton[event.button]
      [] event.kind = "up" -> 3
      [] event.kind = "move" -> PressedButton[event.button] + 32
      [] event.kind = "scroll_up" -> 64
      [] event.kind = "scroll_down" -> 65

NamesButton(event) ==
    event.kind \in {"down", "move"} => event.button \in DOMAIN PressedButton

\* C26: for every press, release, drag and scroll and every combination of
\* Shift, Meta and Ctrl, the button code of the SGR report and the button byte
\* of the legacy report (less its offset of 32) are the base code of the action
\* with 4 (Shift), 8 (Meta) and 16 (Ctrl) or-ed in
C26_ModifiersInBothReports ==
    (MouseReported /\ NamesButton(mouseEvent))
        => /\ Len(mouseData) >= 1
           /\ SgrCode(mouseData[1]) = BaseCode(mouseEvent) + ModifierSum(mouseEvent)
           /\ Len(mouseData) = 2 =>
                 mouseData[2][4] - 32 = BaseCode(mouseEvent) + ModifierSum(mouseEvent)

\* C27: a move with a button held is reported with the button's code plus 32
\* (and the modifier bits) in the SGR report and in the legacy report; a move
\* with no button held writes nothing
C27_DragAdds32 ==
    (called = "on_mouse_move" /\ _process # None)
        => /\ mouseEvent.button = NoButton => mouseData = <<>>
           /\ mouseEvent.button \in DOMAIN PressedButton =>
                 LET code == PressedButton[mouseEvent.button] + 32 + ModifierSum(mouseEvent)
                 IN /\ Len(mouseData) >= 1
                    /\ SgrCode(mouseData[1]) = code
                    /\ Len(mouseData) = 2 => mouseData[2][4] - 32 = code

\* the chunks that are valid UTF-8, and their text: A, U+00E9, U+20AC
ValidText ==
    (<<65>> :> <<65>>) @@ (<<195, 169>> :> <<233>>) @@ (<<226, 130, 172>> :> <<8364>>)

Malformed(data) == data \notin DOMAIN ValidText

\* C28: feeding a chunk never raises, whatever its bytes, and when a valid
\* chunk, a malformed chunk and a valid chunk have been fed in this order, the
\* text fed to the screen starts with the text of the first chunk and ends with
\* the text of the third, both whole
C28_ValidTextKept ==
    /\ fed # None => \A i \in 1..chunk : _handle_output(output[i]) # UnicodeDecodeError
    /\ \A i \in DOMAIN stream : stream[i] >= 0
    /\ (/\ fed # None
        /\ chunk = 3
        /\ ~Malformed(output[1]) /\ Malformed(output[2]) /\ ~Malformed(output[3]))
          => LET first == ValidText[output[1]]
                 third == ValidText[output[3]]
             IN /\ Len(stream) >= Len(first) + Len(third)
                /\ SubSeq(stream, 1, Len(first)) = first
                /\ SubSeq(stream, Len(stream) - Len(third) + 1, Len(stream)) = third

\* C28, its case: U+00E9, then A 0xFF B, then U+20AC have been fed
C28_Witness ==
    /\ fed # None
    /\ chunk = 3
    /\ output[1] = <<195, 169>> /\ output[2] = <<65, 255, 66>> /\ output[3] = <<226, 130, 172>>
    /\ stream = <<233, 65, 66, 8364>>

\* C29: a chunk that is not valid UTF-8 is decoded one character per byte: the
\* text fed for it has as many characters as the chunk has bytes
C29_MalformedByteForByte ==
    [][(chunk' # chunk /\ chunk' \in DOMAIN output /\ Malformed(output[chunk']))
          => Len(stream') = Len(stream) + Len(output[chunk'])]_vars

\* the rows of a Text: its characters between the line feeds
RECURSIVE SplitLines(_)
SplitLines(text) ==
    IF \A i \in DOMAIN text : text[i].ch # "\n" THEN <<text>>
    ELSE LET i == First({j \in DOMAIN text : text[j].ch = "\n"})
         IN <<SubSeq(text, 1, i - 1)>> \o SplitLines(SubSeq(text, i + 1, Len(text)))

CursorAt(row, col) == ~cursor.hidden /\ <<cursor.x, cursor.y>> = <<col, row>>

\* C30: once a feed has rendered the screen, the Text has one row per line of
\* the screen and each row has exactly `columns` characters; where the buffer
\* has no cell (and the cursor is elsewhere) the character is a space without
\* style, and a blank cell with a background colour in the last column of a
\* row is there with its style
C30_OneCellPerPosition ==
    fed # None =>
        LET rows == SplitLines(_display)
            columns == screenSize[1]
            lines == screenSize[2]
        IN /\ Len(rows) = lines
           /\ \A r \in 1..lines : Len(rows[r]) = columns
           /\ \A r \in 1..lines, c \in 1..columns :
                 (<<r - 1, c - 1>> \notin DOMAIN buffer /\ ~CursorAt(r - 1, c - 1))
                    => rows[r][c] = [ch |-> " ", style |-> NoStyle]
           /\ \A r \in 1..lines :
                 (/\ <<r - 1, columns - 1>> \in DOMAIN buffer
                  /\ buffer[<<r - 1, columns - 1>>] = [Char(" ") EXCEPT !.bg = "red"]
                  /\ ~CursorAt(r - 1, columns - 1))
                    => rows[r][columns] = [ch |-> " ", style |-> [NoStyle EXCEPT !.bgcolor = "red"]]

\* the character a cell shows: a space for no cell, an empty cell and NUL
Blank(cell) == cell = NoCell \/ cell.data \in {"", " ", "NUL"}

\* the solid block, U+2588, as one character
FullBlock == "U+2588"

\* C31: once a feed has rendered the screen, every character of a row carries
\* the reverse flag of its cell, toggled at the position of a visible cursor
\* and nowhere else; a visible cursor on a blank cell shows there as the one
\* character U+2588 and its row is no longer than the screen is wide; with the
\* cursor hidden every character is that of its cell
C31_CursorCell ==
    fed # None =>
        LET rows == SplitLines(_display)
            columns == screenSize[1]
        IN \A r \in 1..Len(rows) :
              /\ Len(rows[r]) <= columns
              /\ \A c \in 1..Len(rows[r]) :
                    LET cell == buffer_get(buffer, r - 1, c - 1)
                        at == CursorAt(r - 1, c - 1)
                    IN /\ rows[r][c].style.reverse = (cell.reverse # at)
                       /\ (at /\ Blank(cell)) => rows[r][c].ch = FullBlock
                       /\ (~at /\ ~Blank(cell)) => rows[r][c].ch = cell.data
                       /\ (~at /\ Blank(cell)) => rows[r][c].ch = " "

\* the dict that gives variable k its value in the child: env, else
\* default_env, else the inherited environment, else the defaults
EnvSource(k) ==
    IF ~startEnv.isNone /\ k \in DOMAIN startEnv.items THEN startEnv.items
    ELSE IF k \in DOMAIN default_env THEN default_env
    ELSE IF k \in DOMAIN environ THEN environ
    ELSE [v \in {"TERM"} |-> "xterm-256color"] @@ [v \in {"COLORTERM"} |-> "truecolor"]

\* C32: the environment of every child the pane forked has each variable with
\* the value of env when env sets it, else of default_env, else of the inherited
\* environment, else TERM=xterm-256color and COLORTERM=truecolor, and has no
\* other variable
C32_ChildEnvironment ==
    \A p \in Procs :
        kern[p].child # "none" =>
            /\ DOMAIN kern[p].environ =
                   {k \in EnvKeys : k \in DOMAIN EnvSource(k)}
            /\ \A k \in DOMAIN kern[p].environ : kern[p].environ[k] = EnvSource(k)[k]

\* C32, its case: a child runs whose TERM is inherited, whose COLORTERM nobody
\* set, and whose LANG is set by the inherited environment, default_env and env
C32_Witness ==
    \E p \in Procs :
        /\ kern[p].child = "running"
        /\ "TERM" \in DOMAIN environ /\ "TERM" \notin DOMAIN default_env
        /\ ~startEnv.isNone /\ "TERM" \notin DOMAIN startEnv.items
        /\ "COLORTERM" \notin DOMAIN environ \cup DOMAIN default_env \cup DOMAIN startEnv.items
        /\ "LANG" \in DOMAIN environ \cap DOMAIN default_env \cap DOMAIN startEnv.items
        /\ kern[p].environ = [k \in EnvKeys |-> IF k = "TERM" THEN "inherited"
                                                 ELSE IF k = "COLORTERM" THEN "truecolor"
                                                 ELSE "env"]

\* C33: the exit callback of a process that is not the pane's active process
\* leaves the active process in place
C33_StaleExitKeepsActive ==
    [][\A p \in Procs :
          (hist'[p].exitCount > hist[p].exitCount /\ _process # p)
              => _process' = _process]_vars

\* C34: the rows and cols recorded in the pane's active process are the lines
\* and columns of the pane's screen
C34_ProcessSizeIsScreenSize ==
    _process # None => <<proc[_process].cols, proc[_process].rows>> = screenSize

\* C35: a child that has exited is reaped, then or later
C35_ExitedChildReaped ==
    \A p \in Procs : (kern[p].child = "zombie") ~> (kern[p].child = "reaped")

\* C36: once the exit callback of a PTYProcess has fired or its descriptor is
\* closed, no step reads from its pty for the read callback and no step makes
\* an exit callback for it
C36_NoCallbackAfterClose ==
    [][\A p \in Procs :
          (hist[p].exitCount > 0 \/ hist[p].closeCount > 0)
              => /\ kern'[p].buf = kern[p].buf
                 /\ fed' = p => fed = p
                 /\ hist'[p].exitCount = hist[p].exitCount
                 /\ message'.process = p => message' = message]_vars

\* C36, its case: a PTYProcess whose output was fed and whose exit callback
\* has fired gets one more _on_data call
C36_Witness ==
    /\ lateCall
    /\ \E p \in Procs : fed = p /\ hist[p].exitCount = 1 /\ proc[p].fd = None /\ message.process = p

InputHandlers ==
    {"on_key"} \cup {"on_mouse_" \o kind : kind \in MouseKinds}

\* C37: a key or mouse handler that runs while _process is None makes no
\* write() call, and one that runs while the pane has an active process makes
\* its write() calls on that process and no other
C37_InputToActiveOnly ==
    [][(called' \in InputHandlers /\ called = "none")
          => /\ _process = None => (wr' = NoWrite /\ proc' = proc)
             /\ wr' # NoWrite => wr'.process = _process
             /\ \A p \in Procs : p # _process => proc'[p] = proc[p]]_vars

\* C37, its case: a key event arrives while a start() that has stopped the
\* old process awaits the spawn of the new one, and nothing is written
C37_Witness ==
    /\ called = "on_key"
    /\ wr = NoWrite
    /\ \E t \in Tasks :
          /\ pc[t] = "start_fork"
          /\ hist[tproc[t]].pred # None
          /\ kern[hist[tproc[t]].pred].child = "reaped"

\* C38: when spawn() raises inside start(), start() ends with the lock free,
\* the pane without active process and no child made by that start; the lock
\* stays tied to start() bodies, so the next start() gets it
C38_FailedSpawnLeavesPaneIdle ==
    [][\A t \in Tasks :
          (spawn_raises(t) /\ pc'[t] = "idle")
              => /\ ~locked'
                 /\ _process' = None
                 /\ kern'[tproc[t]].child = "none"
                 /\ proc'[tproc[t]].pid = None
                 /\ tproc[t] \notin readers']_vars

\* C38, its case: the start() after one whose spawn raised has spawned its
\* process, which runs as the active one
C38_Witness ==
    \E p \in Procs, q \in Procs :
        /\ p < q /\ q <= nprocs
        /\ kern[p].child = "none"
        /\ _process = q
        /\ kern[q].child = "running"
        /\ ~locked

\* start() was called with argv None or empty on a pane without default_command
NoCommandGiven ==
    /\ called = "start"
    /\ startArgv.isNone \/ startArgv.items = <<>>
    /\ default_command.isNone

\* C39: a start() call with argv None or empty on a pane without
\* default_command changes nothing of the pane, its lock, its processes, its
\* screen and what the screen was fed
C39_NoCommandChangesNothing ==
    [][(called = "none" /\ NoCommandGiven')
          => UNCHANGED <<paneVars, lockVars, taskVars, objVars, kern, obsVars, renderVars>>]_vars

\* C39, its case: such a call was made while a process ran as the active one
\* and its output was on the screen
C39_Witness ==
    /\ NoCommandGiven
    /\ _process # None
    /\ kern[_process].child = "running"
    /\ fed = _process
    /\ _screen = _process
    /\ _display # <<>>
    /\ ~locked

\* the bytes of the chunks 1..k, one after the other
RECURSIVE Written(_)
Written(k) == IF k = 0 THEN <<>> ELSE Written(k - 1) \o output[k]

\* C40: when the bytes a process has written so far are valid UTF-8, the text
\* fed to the screen from its chunks is the text that the same bytes give when
\* fed as one chunk, wherever the chunks are split
C40_SplitIndependent ==
    (fed # None /\ chunk \in DOMAIN output /\ decode_utf8(Written(chunk), "strict") # UnicodeDecodeError)
        => stream = _handle_output(Written(chunk))

\* sanity of the model: the lock is held exactly while one start() body runs,
\* and the pane has no active process while it is held
LockSanity ==
    /\ locked <=> (\E t \in Tasks : pc[t] \in InStartBody)
    /\ locked => _process = None
    /\ \A p \in Procs : p \in readers <=> proc[p].fd # None
    /\ \A p \in Procs : proc[p].pid # None => kern[p].child # "none"

====
